---- MODULE Spec2Model ----
(***************************************************************************)
(* A model of the stitch server (kzh/stitch): the TTL set of recent        *)
(* message ids, the webhook verification and dispatch, and the stream      *)
(* lifecycle handlers (online, update, offline, track, untrack) together   *)
(* with the upstream platform, the chat channel and the persistent store   *)
(* they act on.                                                            *)
(***************************************************************************)
EXTENDS Integers, Sequences, FiniteSets, TLC

VARIABLES
    now,          \* the clock (tokio Instant / Utc::now), in seconds
    map,          \* TtlSet.map: key -> expiration instant, NoExp when absent
    janitor,      \* the scavenger task of TtlSet::new: [pc, now]
    callers,      \* threads inside TtlSet::contains: [pc, key]
    recorded,     \* key -> the expiration its last insert gave it
    ttl_last,     \* the last answer the TTL set gave (observation)
    verdict,      \* what verify decided for the last request (observation)
    tally,        \* the last call of tally_categories: its input and result
    up_stream,    \* upstream: channel -> its live stream [id, started_at]
    up_name,      \* upstream: channel -> its current login/display name
    next_sid,     \* upstream: the next stream id to hand out
    booted,       \* TwitchWebhook::new has called load_streams
    channels,     \* TwitchWebhook.channels: channel -> stored name
    chan_lock,    \* the task holding the entry of TwitchWebhook.channels
    streams,      \* TwitchWebhook.streams: channel -> runtime Stream
    mutex,        \* the task holding the Mutex of the runtime Stream
    tasks,        \* the handler tasks, each suspended at an await
    chat,         \* the chat channel: message id -> card
    db_streams,   \* the streams table: stream id -> its newest row, with
                  \* the rows it had before
    db_channels,  \* the channels table: channel -> name
    service_channels, \* ChannelService.channels: name -> channel id, NoId
                  \* when the name is not a key
    subs,         \* upstream: the EventSub subscriptions
    sync,         \* the call of TwitchAPI::sync in progress
    unsub,        \* the call of TwitchAPI::unsubscribe_channel in progress
    fetch,        \* the call of TwitchAPI::get_stream in progress
    batch,        \* the call of TwitchAPI::get_streams in progress
    app,          \* app::run: the shutdown token, its two servers, its return
    duration,     \* the last call of human_duration: its input and result
    starts,       \* number of handler invocations so far
    faults,       \* number of failed external calls so far
    last          \* the outcome of the last finished handler (observation)

ttl_vars == <<now, map, janitor, callers, recorded, ttl_last, verdict, tally>>

\* the calls of TwitchAPI that are modelled step by step, and the run of
\* the process around them
call_vars == <<sync, unsub, fetch, batch, app, duration>>

\* the upstream subscriptions and the calls of TwitchAPI
api_vars == <<subs, call_vars>>

\* the webhook engine, the store, the chat and the control plane
handler_vars == <<up_stream, up_name, next_sid, booted, channels, chan_lock,
                  streams, mutex, tasks, chat, db_streams, db_channels,
                  service_channels, starts, faults, last>>

engine_vars == <<handler_vars, api_vars>>

vars == <<now, map, janitor, callers, recorded, ttl_last, verdict, tally,
          up_stream,
          up_name, next_sid, booted, channels, chan_lock, streams, mutex,
          tasks, chat, db_streams, db_channels, service_channels, subs,
          sync, unsub, fetch, batch, app, duration, starts, faults, last>>

----------------------------------------------------------------------------
(* Bounds *)

MaxTime == 4       \* SpecTtl: the clock stops here
MaxTtl == 2        \* the ttl arguments tried are 1..MaxTtl
MaxStarts == 4
MaxStreams == 1    \* stream ids the upstream hands out
MaxFaults == 1     \* external calls that fail
MaxTasks == 2
MaxRequests == 2   \* SpecWebhook: requests received
MaxVerified == 3   \* SpecVerify: requests received
MaxClock == 600    \* SpecWebhook: the clock stops here
TickStep == 300    \* SpecWebhook: seconds per step of the clock
MaxEvents == 3     \* SpecTally: events in a list given to tally_categories
MaxStored == 4     \* SpecOffline: events in the stored row of the live stream
MaxPast == 3       \* SpecOffline: those events are at most MaxPast seconds old
MaxStamp == 4      \* SpecTally: their timestamps are 0..MaxStamp ticks
TicksPerSecond == 2

Keys == {"m1", "m2"}
Threads == {1, 2}
Ttls == 1..MaxTtl

Channels == {"42"}
Names == {"alice", "alicia"}
Tasks == 1..MaxTasks
StreamIds == 1..MaxStreams
MsgIds == 1..(MaxStarts + 1)

NoExp == -1
NoTime == -1
NoChan == ""

\* no channel id: the name is not a key of the map
NoId == ""

----------------------------------------------------------------------------
(* utils/ttl_set.rs *)

\* the janitor's retain predicate: `expiration > now`
Retain(expiration, at) == expiration > at

\* contains: `let is_fresh = *exp > now`
IsFresh(expiration, at) == expiration > at

IdleCaller == [pc |-> "idle", key |-> ""]

NoAnswer == [op |-> "none", key |-> "", ret |-> FALSE, at |-> 0,
             exp |-> NoExp, rec |-> NoExp]

\* tally_categories has not been called
NoTally == [events |-> <<>>, titles |-> <<>>, categories |-> <<>>,
            title |-> ""]

\* no request has been verified yet
NoVerdict == [err |-> "", why |-> "", age |-> 0]

TtlInit ==
    /\ now = 0
    /\ map = [k \in Keys |-> NoExp]
    /\ janitor = [pc |-> "sleep", now |-> 0]
    /\ callers = [t \in Threads |-> IdleCaller]
    /\ recorded = [k \in Keys |-> NoExp]
    /\ ttl_last = NoAnswer
    /\ verdict = NoVerdict
    /\ tally = NoTally

\* time passes
Tick ==
    /\ now < MaxTime
    /\ now' = now + 1
    /\ UNCHANGED <<map, janitor, callers, recorded, ttl_last, verdict, tally>>
    /\ UNCHANGED engine_vars

\* ticker.tick().await returns; the janitor reads Instant::now()
JanitorWake ==
    /\ janitor.pc = "sleep"
    /\ janitor' = [pc |-> "retain", now |-> now]
    /\ UNCHANGED <<now, map, callers, recorded, ttl_last, verdict, tally>>
    /\ UNCHANGED engine_vars

\* map.retain(|_, &mut expiration| expiration > now)
JanitorRetain ==
    /\ janitor.pc = "retain"
    /\ map' = [k \in Keys |->
                 IF map[k] # NoExp /\ Retain(map[k], janitor.now)
                 THEN map[k] ELSE NoExp]
    /\ janitor' = [janitor EXCEPT !.pc = "sleep"]
    /\ UNCHANGED <<now, callers, recorded, ttl_last, verdict, tally>>
    /\ UNCHANGED engine_vars

\* TtlSet::insert: `let expiration = Instant::now() + ttl;
\* self.map.insert(key, expiration)`. The expiration of the key is
\* overwritten whether the key is in the map or not, and the caller is
\* told nothing (ttl_last keeps what the map held before)
Insert(k, ttl) ==
    /\ map' = [map EXCEPT ![k] = now + ttl]
    /\ recorded' = [recorded EXCEPT ![k] = now + ttl]
    /\ ttl_last' = [op |-> "insert", key |-> k, ret |-> TRUE, at |-> now,
                    exp |-> map[k], rec |-> recorded[k]]

\* a caller inserts a key with a ttl
TtlInsert(k, ttl) ==
    /\ Insert(k, ttl)
    /\ UNCHANGED <<now, janitor, callers, verdict, tally>>
    /\ UNCHANGED engine_vars

\* TtlSet::contains up to drop(exp): read the clock, look the key up and
\* decide is_fresh; a stale key is removed by a second map operation
ContainsLookup(t, k) ==
    /\ callers[t].pc = "idle"
    /\ LET present == map[k] # NoExp
           is_fresh == present /\ IsFresh(map[k], now)
       IN /\ ttl_last' = [op |-> "contains", key |-> k, ret |-> is_fresh,
                          at |-> now, exp |-> map[k], rec |-> recorded[k]]
          /\ callers' = [callers EXCEPT ![t] =
                           IF present /\ ~is_fresh
                           THEN [pc |-> "remove", key |-> k]
                           ELSE IdleCaller]
    /\ UNCHANGED <<now, map, janitor, recorded, verdict, tally>>
    /\ UNCHANGED engine_vars

\* TtlSet::contains: self.map.remove(key) of the stale key
ContainsRemove(t) ==
    /\ callers[t].pc = "remove"
    /\ map' = [map EXCEPT ![callers[t].key] = NoExp]
    /\ callers' = [callers EXCEPT ![t] = IdleCaller]
    /\ UNCHANGED <<now, janitor, recorded, ttl_last, verdict, tally>>
    /\ UNCHANGED engine_vars

\* TwitchWebhook::verify negates what its call of recent_messages.insert
\* answers, and TtlSet::insert answers nothing: the answer verify reads is
\* taken to be true unless the map holds the key with an expiration that
\* is still to come (the test contains makes of a key)
Inserted(k) == ~(map[k] # NoExp /\ IsFresh(map[k], now))

\* the TTL set of ttl_set.rs on its own: inserts, lookups, the janitor
TtlNext ==
    \/ Tick
    \/ JanitorWake
    \/ JanitorRetain
    \/ \E k \in Keys, ttl \in Ttls : TtlInsert(k, ttl)
    \/ \E t \in Threads, k \in Keys : ContainsLookup(t, k)
    \/ \E t \in Threads : ContainsRemove(t)

----------------------------------------------------------------------------
(* The records of adapters/webhook.rs, adapters/db.rs and adapters/twitch.rs *)

\* a DateTime<Utc> is counted in ticks, TicksPerSecond to the second; the
\* clock of the handlers reads whole seconds
Instant(secs) == secs * TicksPerSecond

\* db::UpdateEvent, as the handlers build it at the second `timestamp`
UpdateEvent(title, category, timestamp) ==
    [title |-> title, category |-> category,
     timestamp |-> Instant(timestamp)]

\* what a channel.update notification carries
UpdateInputs == {[title |-> "t1", category |-> "g1"]}

\* twitch::TwitchStream as the upstream reports it: title and game_name
StreamTitle == "t0"
StreamGame == "g0"

NoLive == [id |-> 0, started_at |-> NoTime]

\* webhook::Stream; id 0 stands for no entry in the DashMap
NoStream == [id |-> 0, title |-> "", category |-> "", events |-> <<>>,
             started_at |-> NoTime, last_updated |-> NoTime,
             message_id |-> 0, user_name |-> ""]

\* db::Stream: the newest row of a stream_id, with the rows the table
\* held for that stream_id before it, oldest first (the rows have ids of
\* their own); channel_id "" stands for no row
NoRow == [channel_id |-> "", title |-> "", started_at |-> NoTime,
          last_updated |-> NoTime, message_id |-> 0, ended_at |-> NoTime,
          events |-> <<>>, prior |-> <<>>]

\* a row on its own
Plain(row) ==
    [channel_id |-> row.channel_id, title |-> row.title,
     started_at |-> row.started_at, last_updated |-> row.last_updated,
     message_id |-> row.message_id, ended_at |-> row.ended_at,
     events |-> row.events]

\* a chat message: its card, the stream it was sent for and what was done
\* to it, in order
NoCard == [state |-> "none", title |-> "", label |-> <<>>, sid |-> 0,
           log |-> <<>>, missed |-> {}]

IdleTask == [pc |-> "idle", kind |-> "", chan |-> "", ts |-> 0, sid |-> 0,
             started |-> NoTime, name |-> "", pre |-> FALSE, pmsg |-> 0,
             pevents |-> <<>>, msg |-> 0, title |-> "", category |-> "",
             label |-> <<>>, missed |-> {}, had |-> FALSE]

\* what a finished handler or request returned: where it returned, Ok or
\* Err, and the response of a request (status 0: no response is sent)
Returned(kind, chan, at, res, status) ==
    [kind |-> kind, chan |-> chan, at |-> at, res |-> res, status |-> status,
     body |-> "", calls |-> <<>>]

NoOutcome == Returned("", "", "", "", 0)

\* an entry that is seen where there is none
PresentAlways(c) == TRUE

\* self.streams.contains_key / get / remove finds an entry for channel c
Present(c) == streams[c] # NoStream

\* no Ref is ever held
RefHoldersNone(c) == {}

\* the guards update handlers hold on the entry of `streams` for channel c
\* (DashMap::get returns a Ref that lives to the end of handle_channel_update)
RefHolders(c) ==
    {t \in Tasks : tasks[t].kind = "update" /\ tasks[t].chan = c
                   /\ tasks[t].pc \in {"lock", "update_stream", "edit"}}

\* the lowest free task slot
FreeTasks == {t \in Tasks : tasks[t].pc = "idle"}
FreeTask == CHOOSE t \in FreeTasks : \A u \in FreeTasks : t <= u

\* the id the chat platform gives the next message
FreeMsgs == {m \in MsgIds : chat[m].state = "none"}
NextMsg == CHOOSE m \in FreeMsgs : \A n \in FreeMsgs : m <= n

\* load_streams has returned: the servers run
Serving == booted /\ \A t \in Tasks : tasks[t].kind # "boot"

----------------------------------------------------------------------------
(* adapters/twitch.rs: the EventSub subscriptions *)

\* the three events of a tracked channel
Kinds == {"stream.online", "channel.update", "stream.offline"}

\* the id the upstream gives to a subscription it creates
NewId(user_id, event) == user_id \o ":" \o event

\* twitch::Subscription as the upstream lists it
Subscription(id, user_id, event, status) ==
    [id |-> id, user_id |-> user_id, kind |-> event, status |-> status]

\* the status the upstream gives a subscription it has just created:
\* subscribe hands the response back unread, so the status is the
\* upstream's to choose; it is enabled, or not yet
CreatedStatuses == {"enabled", "webhook_callback_verification_pending"}

\* the statuses of the three subscriptions of a channel: the upstream
\* answers the three POSTs of one subscribe_channel alike
ChannelStatuses == {[k \in Kinds |-> status] : status \in CreatedStatuses}
AllEnabled == [k \in Kinds |-> "enabled"]

\* TwitchAPI::subscribe: POST, the upstream has one more subscription,
\* with the status it gave it
Subscribe(s, event, user_id, status) ==
    s \cup {Subscription(NewId(user_id, event), user_id, event, status)}

\* TwitchAPI::subscribe_channel when every call succeeds: the three
\* POSTs, each subscription with the status the upstream gave it
SubscribeChannel(s, user_id, statuses) ==
    s \cup {Subscription(NewId(user_id, k), user_id, k, statuses[k]) :
               k \in Kinds}

\* TwitchAPI::unsubscribe: DELETE ?id=subscription_id
Unsubscribe(s, subscription_id) == {x \in s : x.id # subscription_id}

\* TwitchAPI::get_subscriptions(Some(user_id))
SubscriptionsOf(s, user_id) == {x \in s : x.user_id = user_id}

----------------------------------------------------------------------------
(* TwitchAPI::sync *)

\* no call of sync is in progress
NoSync == [pc |-> "idle", channels |-> <<>>, listed |-> <<>>,
           pending |-> {}, finished |-> {}, res |-> ""]

\* a create or delete that sync issues: the partition that asked for it
\* (stale, add or remove) and the id or the pair it is about
Delete(why, id) == [do |-> "delete", why |-> why, id |-> id, pair |-> <<>>]
Create(pair) == [do |-> "create", why |-> "add", id |-> "", pair |-> pair]

\* a partition with nothing on the stale side
StaleNone(listed) == {}

\* .partition(|sub| sub.status == "enabled"): the indices of each side
Enabled(listed) ==
    {i \in 1..Len(listed) : listed[i].status = "enabled"}
Stale(listed) ==
    {i \in 1..Len(listed) : listed[i].status # "enabled"}

\* the key of a subscription in `have`
PairOf(sub) == <<sub.user_id, sub.kind>>

\* have: the HashMap collected from the enabled subscriptions in list
\* order, a later id of a pair taking the place of an earlier one
HaveKeys(listed) == {PairOf(listed[i]) : i \in Enabled(listed)}
Have(listed) ==
    [pair \in HaveKeys(listed) |->
        LET at == {i \in Enabled(listed) : PairOf(listed[i]) = pair}
            latest == CHOOSE i \in at : \A j \in at : j <= i
        IN listed[latest].id]

\* want: the three events of each channel, a HashSet
Want(ids) ==
    {<<ids[i], k>> : i \in 1..Len(ids), k \in Kinds}

\* an add that asks for every wanted pair
AddEvery(listed, ids) == Want(ids)

\* add: the wanted pairs that `have` has no key for
Add(listed, ids) == Want(ids) \ HaveKeys(listed)

\* a remove that takes every id `have` holds
RemoveEvery(listed, ids) ==
    {Have(listed)[pair] : pair \in HaveKeys(listed)}

\* remove: the ids that `have` holds for the pairs not wanted
Remove(listed, ids) ==
    {Have(listed)[pair] : pair \in HaveKeys(listed) \ Want(ids)}

\* the calls of the partition that sync turns to after `pc`, with the
\* partitions that have no call passed over
StaleCalls(call) ==
    {Delete("stale", call.listed[i].id) : i \in Stale(call.listed)}
AddCalls(call) == {Create(pair) : pair \in Add(call.listed, call.channels)}
RemoveCalls(call) ==
    {Delete("remove", id) : id \in Remove(call.listed, call.channels)}

\* sync(ids): get_subscriptions(None) answers with the list, or fails
\* and sync fails with it; the deletes of the stale subscriptions are
\* issued together
SyncCall(ids, listed, ok) ==
    /\ sync.pc = "idle"
    /\ sync.res = ""
    /\ {listed[i] : i \in 1..Len(listed)} = subs
    /\ Len(listed) = Cardinality(subs)
    /\ sync' = IF ~ok
               THEN [NoSync EXCEPT !.channels = ids, !.res = "err"]
               ELSE LET call == [NoSync EXCEPT !.channels = ids,
                                               !.listed = listed]
                    IN [call EXCEPT !.pc = "stale",
                                    !.pending = StaleCalls(call)]
    /\ UNCHANGED <<subs, unsub, fetch, batch, app, duration, ttl_vars, handler_vars>>

\* a sync that gives up at the first call that fails
SyncReturnOrFail(op, ok, status) ==
    /\ op \in sync.pending
    /\ sync' = IF ok
               THEN [sync EXCEPT !.pending = @ \ {op},
                                 !.finished = @ \cup {[op |-> op, ok |-> ok]}]
               ELSE [sync EXCEPT !.pc = "idle", !.res = "err",
                                 !.pending = {},
                                 !.finished = @ \cup {[op |-> op, ok |-> ok]}]
    /\ subs' = IF ~ok THEN subs
               ELSE IF op.do = "delete" THEN Unsubscribe(subs, op.id)
               ELSE Subscribe(subs, op.pair[2], op.pair[1], status)
    /\ UNCHANGED <<unsub, fetch, batch, app, duration, ttl_vars, handler_vars>>

\* one of the calls that join_all waits for returns: the upstream has done
\* it (a created subscription has the status the upstream gave it), or it
\* failed and the error is dropped with the result
SyncReturn(op, ok, status) ==
    /\ op \in sync.pending
    /\ sync' = [sync EXCEPT !.pending = @ \ {op},
                            !.finished = @ \cup {[op |-> op, ok |-> ok]}]
    /\ subs' = IF ~ok THEN subs
               ELSE IF op.do = "delete" THEN Unsubscribe(subs, op.id)
               ELSE Subscribe(subs, op.pair[2], op.pair[1], status)
    /\ UNCHANGED <<unsub, fetch, batch, app, duration, ttl_vars, handler_vars>>

\* join_all(...).await returns: the calls of the next partition are
\* issued together; after the removes sync returns Ok
SyncJoin ==
    /\ sync.pc \in {"stale", "add", "remove"}
    /\ sync.pending = {}
    /\ sync' = IF sync.pc = "stale"
               THEN [sync EXCEPT !.pc = "add", !.pending = AddCalls(sync)]
               ELSE IF sync.pc = "add"
               THEN [sync EXCEPT !.pc = "remove",
                                 !.pending = RemoveCalls(sync)]
               ELSE [sync EXCEPT !.pc = "idle", !.res = "ok"]
    /\ UNCHANGED <<subs, unsub, fetch, batch, app, duration, ttl_vars, handler_vars>>

----------------------------------------------------------------------------
(* TwitchAPI::unsubscribe_channel *)

\* no call of unsubscribe_channel is in progress
NoUnsub == [pc |-> "idle", user_id |-> "", pending |-> {}, res |-> ""]

\* unsubscribe_channel(user_id): get_subscriptions(Some(user_id)) answers
\* with the subscriptions of the user, or fails and the call fails with
\* it; with none listed the call returns Ok, else the deletes of all of
\* them are issued together
UnsubscribeChannelCall(user_id, ok) ==
    /\ unsub = NoUnsub
    /\ unsub' =
          LET listed == SubscriptionsOf(subs, user_id) IN
          IF ~ok THEN [NoUnsub EXCEPT !.user_id = user_id, !.res = "err"]
          ELSE IF listed = {}
          THEN [NoUnsub EXCEPT !.user_id = user_id, !.res = "ok"]
          ELSE [NoUnsub EXCEPT !.pc = "delete", !.user_id = user_id,
                               !.pending = {sub.id : sub \in listed}]
    /\ UNCHANGED <<subs, sync, fetch, batch, app, duration, ttl_vars,
                   handler_vars>>

\* one of the deletes that try_join_all waits for returns: the upstream
\* has deleted the subscription, and with the last of them the call
\* returns Ok; or the delete failed, the call returns its error and the
\* deletes still in flight are dropped
UnsubscribeReturn(id, ok) ==
    /\ unsub.pc = "delete"
    /\ id \in unsub.pending
    /\ unsub' = IF ~ok
                THEN [unsub EXCEPT !.pc = "idle", !.pending = {},
                                   !.res = "err"]
                ELSE IF unsub.pending = {id}
                THEN [unsub EXCEPT !.pc = "idle", !.pending = {},
                                   !.res = "ok"]
                ELSE [unsub EXCEPT !.pending = @ \ {id}]
    /\ subs' = IF ok THEN Unsubscribe(subs, id) ELSE subs
    /\ UNCHANGED <<sync, fetch, batch, app, duration, ttl_vars, handler_vars>>

----------------------------------------------------------------------------
(* human_duration *)

\* no call of human_duration yet
NoDuration == [start |-> 0, end |-> 0, text |-> ""]

\* i64 division and remainder, which truncate toward zero
Quot(a, b) == IF a >= 0 THEN a \div b ELSE -((-a) \div b)
Rem(a, b) == a - b * Quot(a, b)

\* TimeDelta::num_minutes of end - start, both in seconds: the whole
\* minutes, truncated toward zero
NumMinutes(start, end) == Quot(end - start, 60)

\* {mins:02}
Pad2(n) == IF n < 10 THEN "0" \o ToString(n) ELSE ToString(n)

\* human_duration(start, end)
HumanDuration(start, end) ==
    LET minutes == NumMinutes(start, end) IN
    IF minutes < 0 THEN "<in the future>"
    ELSE ToString(Quot(minutes, 60)) \o "h" \o Pad2(Rem(minutes, 60)) \o "m"

\* human_duration(start, end), called once
HumanDurationCall(start, end) ==
    /\ duration = NoDuration
    /\ duration' = [start |-> start, end |-> end,
                    text |-> HumanDuration(start, end)]
    /\ UNCHANGED <<subs, sync, unsub, fetch, batch, app, ttl_vars, handler_vars>>

----------------------------------------------------------------------------
(* TwitchAPI::get_stream *)

STREAM_FETCH_RETRY_DELAY_SECS == <<15, 30, 60, 120, 300>>

\* no call of get_stream is in progress
NoFetch == [pc |-> "idle", retry |-> FALSE, attempt |-> 0, seen |-> <<>>,
            slept |-> <<>>, res |-> ""]

\* what the upstream answers to one request for the stream of a user: a
\* stream, an empty list, or an error
Answers == {"stream", "empty", "error"}

\* a call that never tries again
AttemptsNone(retry) == 0

\* let attempts = if retry { STREAM_FETCH_RETRY_DELAY_SECS.len() } else { 0 }
Attempts(retry) == IF retry THEN Len(STREAM_FETCH_RETRY_DELAY_SECS) ELSE 0

\* get_stream(user_id, retry) is called: the loop starts at attempt 0
GetStreamCall(retry) ==
    /\ fetch = NoFetch
    /\ fetch' = [NoFetch EXCEPT !.pc = "send", !.retry = retry]
    /\ UNCHANGED <<subs, sync, unsub, batch, app, duration, ttl_vars, handler_vars>>

\* send_json returns: the first stream of the answer is returned; an empty
\* answer or an error is followed by the sleep of this attempt, and after
\* the last attempt by the error
GetStreamAttempt(answer) ==
    /\ fetch.pc = "send"
    /\ fetch' =
          LET seen == Append(fetch.seen, answer) IN
          IF answer = "stream"
          THEN [fetch EXCEPT !.pc = "idle", !.seen = seen, !.res = "ok"]
          ELSE IF fetch.attempt < Attempts(fetch.retry)
          THEN [fetch EXCEPT !.pc = "sleep", !.seen = seen]
          ELSE [fetch EXCEPT !.pc = "idle", !.seen = seen, !.res = "err"]
    /\ UNCHANGED <<subs, sync, unsub, batch, app, duration, ttl_vars, handler_vars>>

\* tokio::time::sleep(STREAM_FETCH_RETRY_DELAY_SECS[attempt]) is over: the
\* next attempt
GetStreamSleep ==
    /\ fetch.pc = "sleep"
    /\ fetch' = [fetch EXCEPT
          !.pc = "send",
          !.slept = Append(@, STREAM_FETCH_RETRY_DELAY_SECS[
                                 fetch.attempt + 1]),
          !.attempt = @ + 1]
    /\ UNCHANGED <<subs, sync, unsub, batch, app, duration, ttl_vars, handler_vars>>

----------------------------------------------------------------------------
(* TwitchAPI::get_streams *)

\* user_ids.chunks(100)
ChunkSize == 100

\* no call of get_streams is in progress
NoBatch == [pc |-> "idle", user_ids |-> <<>>, requests |-> <<>>,
            answers |-> <<>>, streams |-> <<>>, res |-> ""]

\* a call that asks for all the ids at once
ChunkWhole(user_ids, i) == user_ids

\* the i-th chunk of user_ids
Chunk(user_ids, i) ==
    SubSeq(user_ids, (i - 1) * ChunkSize + 1,
           IF i * ChunkSize < Len(user_ids) THEN i * ChunkSize
           ELSE Len(user_ids))

\* what the upstream answers to a request: the streams of all the ids of
\* the request, no stream, or an error
BatchAnswers == {"all", "none", "error"}

\* get_streams(user_ids) is called
GetStreamsCall(user_ids) ==
    /\ batch = NoBatch
    /\ batch' = IF user_ids = <<>>
                THEN [NoBatch EXCEPT !.res = "ok"]
                ELSE [NoBatch EXCEPT !.pc = "send", !.user_ids = user_ids]
    /\ UNCHANGED <<subs, sync, unsub, fetch, app, duration, ttl_vars, handler_vars>>

\* the request of the next chunk returns: its streams are appended, or the
\* error ends the call; after the last chunk the streams are returned
GetStreamsRequest(answer) ==
    LET i == Len(batch.requests) + 1
        chunk == Chunk(batch.user_ids, i)
        sent == [batch EXCEPT !.requests = Append(@, chunk),
                              !.answers = Append(@, answer)]
    IN
    /\ batch.pc = "send"
    /\ batch' =
          IF answer = "error"
          THEN [sent EXCEPT !.pc = "idle", !.res = "err"]
          ELSE LET got == [sent EXCEPT !.streams =
                             IF answer = "all" THEN @ \o chunk ELSE @]
               IN IF i * ChunkSize < Len(batch.user_ids) THEN got
                  ELSE [got EXCEPT !.pc = "idle", !.res = "ok"]
    /\ UNCHANGED <<subs, sync, unsub, fetch, app, duration, ttl_vars, handler_vars>>

----------------------------------------------------------------------------
(* app.rs: run, from its select! to its return *)

\* run has entered its select!: the token is not cancelled, the gRPC
\* server and the webhook server are polled
Running == [cancelled |-> FALSE, grpc |-> "serving", webhook |-> "serving",
            run |-> "running", workers |-> 1]

\* the tasks of the JoinSet that have not finished
Spawned == {t \in Tasks : tasks[t].kind = "online" /\ tasks[t].pc # "idle"}

\* the requests the webhook server is still answering
InFlight == {t \in Tasks : tasks[t].kind \in {"update", "offline"}
                            /\ tasks[t].pc # "idle"}

\* shutdown_token: SIGTERM or SIGINT arrives and the token is cancelled;
\* run makes the token after TwitchWebhook::new, and with it load_streams
\* and its handlers, has returned
Cancel ==
    /\ Serving
    /\ app.run = "running"
    /\ ~app.cancelled
    /\ app' = [app EXCEPT !.cancelled = TRUE]
    /\ UNCHANGED <<subs, sync, unsub, fetch, batch, duration, ttl_vars, handler_vars>>

\* grpc.serve_with_shutdown returns: its branch of the select! is taken,
\* the future of webhook.serve is dropped where it is, and run returns
GrpcShutDown ==
    /\ app.run = "running"
    /\ app.cancelled
    /\ app.grpc = "serving"
    /\ app' = [app EXCEPT !.grpc = "exited", !.run = "returned"]
    /\ UNCHANGED <<subs, sync, unsub, fetch, batch, duration, ttl_vars, handler_vars>>

\* axum::serve(..).with_graceful_shutdown(shutdown) returns, the requests
\* in flight answered: serve goes on to its JoinSet
GracefulShutdown ==
    /\ app.run = "running"
    /\ app.cancelled
    /\ app.webhook = "serving"
    /\ InFlight = {}
    /\ app' = [app EXCEPT !.webhook = "draining"]
    /\ UNCHANGED <<subs, sync, unsub, fetch, batch, duration, ttl_vars, handler_vars>>

\* tasks.join_next() has returned every task: serve returns Ok, its
\* branch of the select! is taken, the future of the gRPC server is
\* dropped where it is, and run returns
JoinNext ==
    /\ app.run = "running"
    /\ app.webhook = "draining"
    /\ Spawned = {}
    /\ app' = [app EXCEPT !.webhook = "exited", !.run = "returned"]
    /\ UNCHANGED <<subs, sync, unsub, fetch, batch, duration, ttl_vars, handler_vars>>

----------------------------------------------------------------------------
(* The state after the process has opened its store *)

BootChannel == "42"

\* app::run: the table of ChannelService collected from the channel rows
\* of the store, (c.name, c.channel_id) for each
ServiceChannelsMap(rows) ==
    [name \in Names |->
        IF \E c \in Channels : rows[c] = name
        THEN CHOOSE c \in Channels : rows[c] = name
        ELSE NoId]

\* the store and the chat as an earlier run of the process left them: the
\* channel tracked or not, an unfinished stream 1 with its live card or
\* not; the upstream with stream 1 live or not, and the channel's name n
EngineStateWith(tracked, row, live, n, events) ==
       /\ up_stream = [c \in Channels |->
             IF c = BootChannel /\ live = 1
             THEN [id |-> 1, started_at |-> 0] ELSE NoLive]
       /\ up_name = [c \in Channels |-> n]
       /\ next_sid = IF live = 1 \/ row THEN 2 ELSE 1
       /\ booted = FALSE
       /\ db_channels = [c \in Channels |->
             IF c = BootChannel /\ tracked THEN "alice" ELSE NoChan]
       /\ channels = db_channels
       /\ service_channels = ServiceChannelsMap(db_channels)
       /\ chan_lock = [c \in Channels |-> 0]
       /\ streams = [c \in Channels |-> NoStream]
       /\ mutex = [c \in Channels |-> 0]
       /\ tasks = [t \in Tasks |-> IdleTask]
       /\ db_streams = [s \in StreamIds |->
             IF s = 1 /\ row
             THEN [channel_id |-> BootChannel, title |-> StreamTitle,
                   started_at |-> 0, last_updated |-> 0, message_id |-> 1,
                   ended_at |-> NoTime, events |-> events, prior |-> <<>>]
             ELSE NoRow]
       /\ chat = [m \in MsgIds |->
             IF m = 1 /\ row
             THEN [state |-> "live", title |-> StreamTitle,
                   label |-> <<StreamGame>>, sid |-> 1, log |-> <<"send">>,
                   missed |-> {}]
             ELSE NoCard]
       /\ starts = 0
       /\ faults = 0
       /\ last = NoOutcome

\* a tracked channel has its three subscriptions, no call is in progress
EngineInitWith(tracked, row, live, n, events) ==
    /\ EngineStateWith(tracked, row, live, n, events)
    /\ subs = IF tracked THEN SubscribeChannel({}, BootChannel, AllEnabled)
              ELSE {}
    /\ sync = NoSync
    /\ unsub = NoUnsub
    /\ fetch = NoFetch
    /\ batch = NoBatch
    /\ app = Running
    /\ duration = NoDuration

\* the stored row of stream 1, if any, is as start_stream wrote it
EngineInitOf(tracked, row, live, n) ==
    EngineInitWith(tracked, row, live, n,
                   <<UpdateEvent(StreamTitle, StreamGame, 0)>>)

EngineInit ==
    \E tracked \in BOOLEAN, row \in BOOLEAN, live \in 0..1, n \in Names :
       /\ row => tracked
       /\ EngineInitOf(tracked, row, live, n)

Init ==
    /\ TtlInit
    /\ EngineInit

\* the TTL set on its own: the handlers have nothing to do
InitTtl ==
    /\ TtlInit
    /\ EngineInitOf(FALSE, FALSE, 0, "alice")

\* the webhook server: the channel is tracked under an older name, and
\* either nothing is live or stream 1 is, with its unfinished row
InitWebhook ==
    /\ TtlInit
    /\ \E live \in 0..1 : EngineInitOf(TRUE, live = 1, live, "alicia")

----------------------------------------------------------------------------
(* The upstream platform *)

\* a broadcaster goes live: the upstream gives the stream a new id
GoLive(c) ==
    /\ up_stream[c].id = 0
    /\ next_sid <= MaxStreams
    /\ up_stream' = [up_stream EXCEPT ![c] = [id |-> next_sid, started_at |-> now]]
    /\ next_sid' = next_sid + 1
    /\ UNCHANGED <<up_name, booted, channels, chan_lock, streams, mutex,
                   tasks, chat, db_streams, db_channels, starts, faults,
                   service_channels, api_vars>>
    /\ last' = NoOutcome
    /\ UNCHANGED ttl_vars

\* the broadcast ends
GoOffline(c) ==
    /\ up_stream[c].id # 0
    /\ up_stream' = [up_stream EXCEPT ![c] = NoLive]
    /\ UNCHANGED <<up_name, next_sid, booted, channels, chan_lock, streams,
                   mutex, tasks, chat, db_streams, db_channels, starts,
                   faults, service_channels, api_vars>>
    /\ last' = NoOutcome
    /\ UNCHANGED ttl_vars

----------------------------------------------------------------------------
(* Pure functions of adapters/webhook.rs *)

Min(a, b) == IF a <= b THEN a ELSE b

\* events.sort_by_key(|e| e.timestamp): a stable sort
InsertEvent(e, sorted) ==
    LET k == Cardinality({i \in 1..Len(sorted) :
                            sorted[i].timestamp <= e.timestamp})
    IN SubSeq(sorted, 1, k) \o <<e>> \o SubSeq(sorted, k + 1, Len(sorted))

RECURSIVE SortEvents(_)
SortEvents(events) ==
    IF events = <<>> THEN <<>>
    ELSE InsertEvent(events[Len(events)],
                     SortEvents(SubSeq(events, 1, Len(events) - 1)))

\* TimeDelta::num_seconds of a duration that is not negative: the whole
\* seconds in it
NumSeconds(ticks) == ticks \div TicksPerSecond

\* the seconds between events[i] and events[i+1] (never negative: the
\* caller has sorted the events)
Elapsed(events, i) ==
    NumSeconds(events[i + 1].timestamp - events[i].timestamp)

RECURSIVE SumElapsed(_, _)
SumElapsed(events, windows) ==
    IF windows = {} THEN 0
    ELSE LET i == CHOOSE j \in windows : TRUE
         IN Elapsed(events, i) + SumElapsed(events, windows \ {i})

\* a loop that credits the later event of the window
CreditedLater(prev, curr) == curr

\* tally_categories: the event of a window whose title and category are
\* credited with the window's seconds: `prev`
Credited(prev, curr) == prev

\* *map.entry(key).or_insert(0) += elapsed
Credit(m, key, elapsed) ==
    [x \in DOMAIN m \cup {key} |->
        IF x = key THEN (IF key \in DOMAIN m THEN m[key] ELSE 0) + elapsed
        ELSE m[x]]

\* tally_categories: `for window in events.windows(2)` from window i on,
\* with the two HashMaps built so far
RECURSIVE TallyLoop(_, _, _, _)
TallyLoop(events, i, titles, categories) ==
    IF i > Len(events) - 1 THEN [titles |-> titles, categories |-> categories]
    ELSE LET e == Credited(events[i], events[i + 1])
         IN TallyLoop(events, i + 1,
                      Credit(titles, e.title, Elapsed(events, i)),
                      Credit(categories, e.category, Elapsed(events, i)))

\* tally_categories: the two maps built over events.windows(2)
TitleTally(events) == TallyLoop(events, 1, <<>>, <<>>).titles

CategoryTally(events) == TallyLoop(events, 1, <<>>, <<>>).categories

\* a choice of title that ignores the durations
AnyTitles(events) == DOMAIN TitleTally(events)

\* titles.iter().max_by_key(count): the HashMap's order decides among equals
MaxTitles(events) ==
    LET m == TitleTally(events)
    IN {x \in DOMAIN m : \A y \in DOMAIN m : m[y] <= m[x]}

\* most.sort_by_key(Reverse(count)) then take(3): every order of the
\* HashMap's entries that is descending in count, cut to three
TopThree(events) ==
    LET m == CategoryTally(events)
        n == Cardinality(DOMAIN m)
        orders == {f \in [1..n -> DOMAIN m] :
                     /\ \A i, j \in 1..n : i # j => f[i] # f[j]
                     /\ \A i, j \in 1..n : i < j => m[f[i]] >= m[f[j]]}
    IN {SubSeq(f, 1, Min(3, n)) : f \in orders}

----------------------------------------------------------------------------
(* Handler tasks *)

\* Observation: the spawned online handlers of channel c that are still
\* running note that a notification of this kind found no runtime Stream
Missed(c, kind) ==
    [t \in Tasks |->
       IF tasks[t].kind = "online" /\ tasks[t].chan = c
       THEN [tasks[t] EXCEPT !.missed = @ \cup {kind}]
       ELSE tasks[t]]

\* The handler of task t returns res ("ok" or "err"); a handler that
\* handle_message awaits inline answers 204 or 500
Outcome(t, res) ==
    LET awaited == tasks[t].kind \in {"update", "offline"}
        status == IF ~awaited THEN 0 ELSE IF res = "ok" THEN 204 ELSE 500
    IN [Returned(tasks[t].kind, tasks[t].chan, tasks[t].pc, res, status)
          EXCEPT !.body = IF status = 500 THEN "Internal Server Error"
                          ELSE ""]

Release(lock, t) == [c \in Channels |-> IF lock[c] = t THEN 0 ELSE lock[c]]

\* a handler invocation: the clock moves on and the invocation is counted
Invoke ==
    /\ starts < MaxStarts
    /\ starts' = starts + 1
    /\ now' = now + 1
    /\ UNCHANGED <<map, janitor, callers, recorded, ttl_last, verdict, tally>>

\* the webhook::Stream that handle_stream_online inserts
NewStream(tk, name, message_id, events) ==
    [id |-> tk.sid, title |-> StreamTitle, category |-> StreamGame,
     events |-> events, started_at |-> tk.started,
     last_updated |-> tk.started, message_id |-> message_id,
     user_name |-> name]

----------------------------------------------------------------------------
(* handle_stream_online *)

\* handle_notification, "stream.online": spawn handle_stream_online with
\* the verified timestamp and return Ok at once (Observation: the task
\* notes in `had` whether the broadcaster had a runtime Stream then)
OnlineNotification(c, timestamp) ==
    /\ FreeTasks # {}
    /\ tasks' = [tasks EXCEPT ![FreeTask] =
                   [IdleTask EXCEPT !.pc = "get_stream", !.kind = "online",
                                    !.chan = c, !.ts = timestamp,
                                    !.had = Present(c)]]
    /\ last' = Returned("online", c, "spawn", "ok", 204)
    /\ UNCHANGED <<up_stream, up_name, next_sid, booted, channels, chan_lock,
                   streams, mutex, chat, db_streams, db_channels, faults,
                   service_channels, api_vars>>

\* a stream.online notification is delivered
StartOnline(c) ==
    /\ Serving
    /\ Invoke
    /\ OnlineNotification(c, now)

\* api.get_stream(user_id, true) answers with the live stream
GetStream(t) ==
    LET tk == tasks[t] IN
    /\ tk.pc = "get_stream"
    /\ up_stream[tk.chan].id # 0
    /\ tasks' = [tasks EXCEPT ![t] =
                   [tk EXCEPT !.pc = "get_channel",
                              !.sid = up_stream[tk.chan].id,
                              !.started = up_stream[tk.chan].started_at]]
    /\ UNCHANGED <<up_stream, up_name, next_sid, booted, channels, chan_lock,
                   streams, mutex, chat, db_streams, db_channels, starts,
                   faults, service_channels, api_vars>>
    /\ last' = NoOutcome
    /\ UNCHANGED ttl_vars

\* api.get_stream finds no stream: the handler warns and returns Ok
GetStreamNone(t) ==
    LET tk == tasks[t] IN
    /\ tk.pc \in {"get_stream", "probe"}
    /\ up_stream[tk.chan].id = 0
    /\ tasks' = [tasks EXCEPT ![t] = IdleTask]
    /\ last' = Outcome(t, "ok")
    /\ UNCHANGED <<up_stream, up_name, next_sid, booted, channels, chan_lock,
                   streams, mutex, chat, db_streams, db_channels, starts,
                   faults, service_channels, api_vars>>
    /\ UNCHANGED ttl_vars

\* self.channels.entry(channel.id) has the shard: a vacant entry ends the
\* handler; an entry whose name differs is renamed and kept across
\* db::update_channel; else the handler goes on, a preloaded stream is
\* inserted at once
ChannelsEntry(t, name) ==
    LET tk == tasks[t]
        c == tk.chan
    IN
    IF channels[c] = NoChan
    THEN /\ tasks' = [tasks EXCEPT ![t] = IdleTask]
         /\ last' = Outcome(t, "ok")
         /\ UNCHANGED <<channels, chan_lock, streams>>
    ELSE IF channels[c] # name
    THEN /\ channels' = [channels EXCEPT ![c] = name]
         /\ chan_lock' = [chan_lock EXCEPT ![c] = t]
         /\ tasks' = [tasks EXCEPT ![t] =
               [tk EXCEPT !.pc = "update_channel", !.name = name]]
         /\ UNCHANGED streams
         /\ last' = NoOutcome
    ELSE IF tk.pre
    THEN /\ streams' = [streams EXCEPT ![c] =
               NewStream(tk, name, tk.pmsg, tk.pevents)]
         /\ tasks' = [tasks EXCEPT ![t] = IdleTask]
         /\ last' = Outcome(t, "ok")
         /\ UNCHANGED <<channels, chan_lock>>
    ELSE /\ tasks' = [tasks EXCEPT ![t] =
               [tk EXCEPT !.pc = "send", !.name = name]]
         /\ UNCHANGED <<channels, chan_lock, streams>>
         /\ last' = NoOutcome

\* api.get_channel answers; then, without suspending: the presence check
\* on `streams` and the entry of `channels`; while another handler keeps
\* that entry the thread waits inside channels.entry
GetChannel(t) ==
    LET tk == tasks[t]
        c == tk.chan
        name == up_name[c]
    IN
    /\ tk.pc = "get_channel"
    /\ IF Present(c)
       THEN /\ tasks' = [tasks EXCEPT ![t] = IdleTask]
            /\ last' = Outcome(t, "ok")
            /\ UNCHANGED <<channels, chan_lock, streams>>
       ELSE IF chan_lock[c] # 0
       THEN /\ tasks' = [tasks EXCEPT ![t] =
                  [tk EXCEPT !.pc = "entry", !.name = name]]
            /\ last' = NoOutcome
            /\ UNCHANGED <<channels, chan_lock, streams>>
       ELSE ChannelsEntry(t, name)
    /\ UNCHANGED <<up_stream, up_name, next_sid, booted, mutex, chat,
                   db_streams, db_channels, starts, faults,
                   service_channels, api_vars>>
    /\ UNCHANGED ttl_vars

\* the entry of `channels` is released: channels.entry of the waiting
\* handler returns
EntryReturns(t) ==
    LET tk == tasks[t] IN
    /\ tk.pc = "entry"
    /\ chan_lock[tk.chan] = 0
    /\ ChannelsEntry(t, tk.name)
    /\ UNCHANGED <<up_stream, up_name, next_sid, booted, mutex, chat,
                   db_streams, db_channels, starts, faults,
                   service_channels, api_vars>>
    /\ UNCHANGED ttl_vars

\* db::update_channel returns; the entry of `channels` is released; a
\* preloaded stream is inserted at once
UpdateChannel(t) ==
    LET tk == tasks[t]
        c == tk.chan
    IN
    /\ tk.pc = "update_channel"
    /\ db_channels' = [db_channels EXCEPT ![c] =
                         IF @ = NoChan THEN @ ELSE tk.name]
    /\ chan_lock' = Release(chan_lock, t)
    /\ IF tk.pre
       THEN /\ streams' = [streams EXCEPT ![c] =
                  NewStream(tk, tk.name, tk.pmsg, tk.pevents)]
            /\ tasks' = [tasks EXCEPT ![t] = IdleTask]
            /\ last' = Outcome(t, "ok")
       ELSE /\ tasks' = [tasks EXCEPT ![t] = [tk EXCEPT !.pc = "send"]]
            /\ UNCHANGED streams
            /\ last' = NoOutcome
    /\ UNCHANGED <<up_stream, up_name, next_sid, booted, channels, mutex,
                   chat, db_streams, starts, faults, service_channels, api_vars>>
    /\ UNCHANGED ttl_vars

\* message_discord returns the new message; streams.insert follows without
\* suspending: the runtime Stream is inserted with the initial event at
\* the handler's timestamp, or the thread waits inside streams.insert for
\* the Refs on the entry
Send(t) ==
    LET tk == tasks[t]
        c == tk.chan
        m == NextMsg
    IN
    /\ tk.pc = "send"
    /\ FreeMsgs # {}
    /\ chat' = [chat EXCEPT ![m] =
                  [state |-> "live", title |-> StreamTitle,
                   label |-> <<StreamGame>>, sid |-> tk.sid,
                   log |-> <<"send">>, missed |-> tk.missed]]
    /\ IF RefHolders(c) = {}
       THEN /\ streams' = [streams EXCEPT ![c] =
                  NewStream(tk, tk.name, m,
                            <<UpdateEvent(StreamTitle, StreamGame, tk.ts)>>)]
            /\ tasks' = [tasks EXCEPT ![t] =
                           [tk EXCEPT !.pc = "start_stream", !.msg = m]]
       ELSE /\ tasks' = [tasks EXCEPT ![t] =
                           [tk EXCEPT !.pc = "insert", !.msg = m]]
            /\ UNCHANGED streams
    /\ UNCHANGED <<up_stream, up_name, next_sid, booted, channels, chan_lock,
                   mutex, db_streams, db_channels, starts, faults,
                   service_channels, api_vars>>
    /\ last' = NoOutcome
    /\ UNCHANGED ttl_vars

\* the Refs are dropped: streams.insert of the waiting handler returns
\* (Observation: the card notes what the handler missed up to here)
StreamsInsert(t) ==
    LET tk == tasks[t]
        c == tk.chan
    IN
    /\ tk.pc = "insert"
    /\ RefHolders(c) = {}
    /\ streams' = [streams EXCEPT ![c] =
          NewStream(tk, tk.name, tk.msg,
                    <<UpdateEvent(StreamTitle, StreamGame, tk.ts)>>)]
    /\ tasks' = [tasks EXCEPT ![t] = [tk EXCEPT !.pc = "start_stream"]]
    /\ chat' = [chat EXCEPT ![tk.msg].missed = tk.missed]
    /\ UNCHANGED <<up_stream, up_name, next_sid, booted, channels, chan_lock,
                   mutex, db_streams, db_channels, starts, faults,
                   service_channels, api_vars>>
    /\ last' = NoOutcome
    /\ UNCHANGED ttl_vars

\* the streams table holds at most one unfinished row per stream_id
\* (stream_id is unique while active): an INSERT of a stream_id that has
\* a row with ended_at NULL is refused, any other is taken
Conflict(sid) ==
    db_streams[sid] # NoRow /\ db_streams[sid].ended_at = NoTime

\* an INSERT that writes over the row the stream_id has
InsertedOver(old, row) == [row EXCEPT !.prior = old.prior]

\* INSERT INTO streams: the table has one more row, the rows the
\* stream_id had stay as they are
InsertedRow(old, row) ==
    [row EXCEPT !.prior = IF old = NoRow THEN <<>>
                          ELSE Append(old.prior, Plain(old))]

\* db::start_stream: INSERT the row with its initial event at
\* stream.started_at; an unfinished row of this stream_id is a conflict
StartStream(t) ==
    LET tk == tasks[t]
        conflict == Conflict(tk.sid)
    IN
    /\ tk.pc = "start_stream"
    /\ db_streams' = [db_streams EXCEPT ![tk.sid] =
          IF conflict THEN @
          ELSE InsertedRow(@,
                  [channel_id |-> tk.chan, title |-> StreamTitle,
                   started_at |-> tk.started, last_updated |-> tk.started,
                   message_id |-> tk.msg, ended_at |-> NoTime,
                   events |-> <<UpdateEvent(StreamTitle, StreamGame,
                                            tk.started)>>,
                   prior |-> <<>>])]
    /\ tasks' = [tasks EXCEPT ![t] = IdleTask]
    /\ last' = Outcome(t, IF conflict THEN "err" ELSE "ok")
    /\ UNCHANGED <<up_stream, up_name, next_sid, booted, channels, chan_lock,
                   streams, mutex, chat, db_channels, starts, faults,
                   service_channels, api_vars>>
    /\ UNCHANGED ttl_vars

----------------------------------------------------------------------------
(* handle_channel_update *)

\* under the lock: set title, category, last_updated and push the event
Mutate(stream, title, category, timestamp) ==
    [stream EXCEPT !.title = title, !.category = category,
                   !.last_updated = timestamp,
                   !.events = Append(@, UpdateEvent(title, category,
                                                    timestamp))]

\* handle_notification, "channel.update": look the entry up (the Ref is
\* held from here on), lock it if it is free and mutate the runtime Stream
ChannelUpdate(c, u, timestamp) ==
    /\ IF ~Present(c)
       THEN /\ last' = Returned("update", c, "get", "ok", 204)
            /\ tasks' = Missed(c, "update")
            /\ UNCHANGED <<streams, mutex>>
       ELSE /\ FreeTasks # {}
            /\ LET tk == [IdleTask EXCEPT !.kind = "update", !.chan = c,
                                          !.ts = timestamp,
                                          !.title = u.title,
                                          !.category = u.category,
                                          !.sid = streams[c].id,
                                          !.msg = streams[c].message_id]
               IN IF mutex[c] = 0
                  THEN /\ streams' = [streams EXCEPT ![c] =
                             Mutate(@, u.title, u.category, timestamp)]
                       /\ mutex' = [mutex EXCEPT ![c] = FreeTask]
                       /\ tasks' = [tasks EXCEPT ![FreeTask] =
                             [tk EXCEPT !.pc = "update_stream"]]
                  ELSE /\ tasks' = [tasks EXCEPT ![FreeTask] =
                             [tk EXCEPT !.pc = "lock"]]
                       /\ UNCHANGED <<streams, mutex>>
            /\ last' = NoOutcome
    /\ UNCHANGED <<up_stream, up_name, next_sid, booted, channels, chan_lock,
                   chat, db_streams, db_channels, faults, service_channels, api_vars>>

\* a channel.update notification is delivered
StartUpdate(c, u) ==
    /\ Serving
    /\ Invoke
    /\ ChannelUpdate(c, u, now)

\* guard.lock().await returns: the waiting update handler gets the Mutex
Lock(t) ==
    LET tk == tasks[t]
        c == tk.chan
    IN
    /\ tk.pc = "lock"
    /\ mutex[c] = 0
    /\ mutex' = [mutex EXCEPT ![c] = t]
    /\ streams' = [streams EXCEPT ![c] =
                     IF @.message_id # tk.msg THEN @
                     ELSE Mutate(@, tk.title, tk.category, tk.ts)]
    /\ tasks' = [tasks EXCEPT ![t] = [tk EXCEPT !.pc = "update_stream"]]
    /\ UNCHANGED <<up_stream, up_name, next_sid, booted, channels, chan_lock,
                   chat, db_streams, db_channels, starts, faults,
                   service_channels, api_vars>>
    /\ last' = NoOutcome
    /\ UNCHANGED ttl_vars

\* UPDATE streams SET title = $1, events = events || $2, on one row
Updated(row, title, event) ==
    [row EXCEPT !.title = title, !.events = Append(@, event)]

\* db::update_stream: SET title, events = events || event WHERE stream_id:
\* every row of the stream_id, ended or not
UpdateStream(t) ==
    LET tk == tasks[t]
        sid == tk.sid
        event == UpdateEvent(tk.title, tk.category, tk.ts)
        row == db_streams[sid]
    IN
    /\ tk.pc = "update_stream"
    /\ db_streams' = [db_streams EXCEPT ![sid] =
          IF row = NoRow THEN row
          ELSE [Updated(row, tk.title, event) EXCEPT !.prior =
                  [i \in 1..Len(row.prior) |->
                     Updated(row.prior[i], tk.title, event)]]]
    /\ tasks' = [tasks EXCEPT ![t] = [tk EXCEPT !.pc = "edit"]]
    /\ UNCHANGED <<up_stream, up_name, next_sid, booted, channels, chan_lock,
                   streams, mutex, chat, db_channels, starts, faults,
                   service_channels, api_vars>>
    /\ last' = NoOutcome
    /\ UNCHANGED ttl_vars

\* edit_discord with the live card; the handler returns and drops the
\* MutexGuard and the Ref
EditLive(t) ==
    LET tk == tasks[t]
        m == tk.msg
        there == chat[m].state \in {"live", "ended"}
    IN
    /\ tk.pc = "edit"
    /\ chat' = [chat EXCEPT ![m] =
          IF ~there THEN @
          ELSE [@ EXCEPT !.state = "live", !.title = tk.title,
                         !.label = <<tk.category>>,
                         !.log = Append(@, "live")]]
    /\ mutex' = Release(mutex, t)
    /\ tasks' = [tasks EXCEPT ![t] = IdleTask]
    /\ last' = Outcome(t, IF there THEN "ok" ELSE "err")
    /\ UNCHANGED <<up_stream, up_name, next_sid, booted, channels, chan_lock,
                   streams, db_streams, db_channels, starts, faults,
                   service_channels, api_vars>>
    /\ UNCHANGED ttl_vars

----------------------------------------------------------------------------
(* handle_stream_offline *)

\* handle_notification, "stream.offline": remove the entry, lock it, and
\* tally its events with the terminal event. While an update handler holds
\* a Ref on the entry, streams.remove does not return: the handler waits
\* in it, its request not answered
StreamOffline(c, timestamp) ==
    /\ IF RefHolders(c) # {}
       THEN /\ FreeTasks # {}
            /\ tasks' = [tasks EXCEPT ![FreeTask] =
                  [IdleTask EXCEPT !.pc = "remove", !.kind = "offline",
                                   !.chan = c, !.ts = timestamp]]
            /\ last' = NoOutcome
            /\ UNCHANGED streams
       ELSE IF ~Present(c) \/ streams[c].events = <<>>
       THEN /\ last' = Returned("offline", c, "remove", "ok", 204)
            /\ streams' = [streams EXCEPT ![c] = NoStream]
            /\ tasks' = Missed(c, "offline")
       ELSE /\ FreeTasks # {}
            /\ streams' = [streams EXCEPT ![c] = NoStream]
            /\ LET stream == streams[c]
                   events == SortEvents(Append(stream.events,
                                UpdateEvent(stream.title, stream.category,
                                            timestamp)))
               IN \E title \in MaxTitles(events), label \in TopThree(events) :
                     tasks' = [tasks EXCEPT ![FreeTask] =
                        [IdleTask EXCEPT !.pc = "off_edit",
                                         !.kind = "offline", !.chan = c,
                                         !.ts = timestamp,
                                         !.sid = stream.id,
                                         !.started = stream.started_at,
                                         !.msg = stream.message_id,
                                         !.title = title, !.label = label]]
            /\ last' = NoOutcome
    /\ UNCHANGED <<up_stream, up_name, next_sid, booted, channels, chan_lock,
                   mutex, chat, db_streams, db_channels, faults,
                   service_channels, api_vars>>

\* a stream.offline notification is delivered
StartOffline(c) ==
    /\ Serving
    /\ Invoke
    /\ StreamOffline(c, now)

\* the last Ref is dropped: streams.remove of the waiting handler returns
\* and the handler goes on as StreamOffline does
Removed(t) ==
    LET tk == tasks[t]
        c == tk.chan
    IN
    /\ tk.pc = "remove"
    /\ tk.kind = "offline"
    /\ RefHolders(c) = {}
    /\ streams' = [streams EXCEPT ![c] = NoStream]
    /\ IF ~Present(c) \/ streams[c].events = <<>>
       THEN /\ last' = Returned("offline", c, "remove", "ok", 204)
            /\ tasks' = [Missed(c, "offline") EXCEPT ![t] = IdleTask]
       ELSE /\ \E stream \in {streams[c]} :
               \E events \in {SortEvents(Append(stream.events,
                                UpdateEvent(stream.title, stream.category,
                                            tk.ts)))} :
               \E title \in MaxTitles(events), label \in TopThree(events) :
                     tasks' = [tasks EXCEPT ![t] =
                        [IdleTask EXCEPT !.pc = "off_edit",
                                         !.kind = "offline", !.chan = c,
                                         !.ts = tk.ts,
                                         !.sid = stream.id,
                                         !.started = stream.started_at,
                                         !.msg = stream.message_id,
                                         !.title = title, !.label = label]]
            /\ last' = NoOutcome
    /\ UNCHANGED <<up_stream, up_name, next_sid, booted, channels, chan_lock,
                   mutex, chat, db_streams, db_channels, starts, faults,
                   service_channels, api_vars>>
    /\ UNCHANGED ttl_vars

\* edit_discord with the ended card
OffEdit(t) ==
    LET tk == tasks[t]
        there == chat[tk.msg].state \in {"live", "ended"}
    IN
    /\ tk.pc = "off_edit"
    /\ chat' = [chat EXCEPT ![tk.msg] =
          IF ~there THEN @
          ELSE [@ EXCEPT !.state = "ended", !.title = tk.title,
                         !.label = tk.label, !.log = Append(@, "ended")]]
    /\ IF there
       THEN /\ tasks' = [tasks EXCEPT ![t] = [tk EXCEPT !.pc = "end_stream"]]
            /\ last' = NoOutcome
       ELSE /\ tasks' = [tasks EXCEPT ![t] = IdleTask]
            /\ last' = Outcome(t, "err")
    /\ UNCHANGED <<up_stream, up_name, next_sid, booted, channels, chan_lock,
                   streams, mutex, db_streams, db_channels, starts, faults,
                   service_channels, api_vars>>
    /\ UNCHANGED ttl_vars

\* an end_stream without its `ended_at IS NULL`
EndStreamAlways(t) ==
    LET tk == tasks[t] IN
    /\ tk.pc = "end_stream"
    /\ db_streams' = [db_streams EXCEPT ![tk.sid] =
          IF @ = NoRow THEN @
          ELSE [@ EXCEPT !.ended_at = tk.ts, !.title = tk.title]]
    /\ tasks' = [tasks EXCEPT ![t] = IdleTask]
    /\ last' = Outcome(t, "ok")
    /\ UNCHANGED <<up_stream, up_name, next_sid, booted, channels, chan_lock,
                   streams, mutex, chat, db_channels, starts, faults,
                   service_channels, api_vars>>
    /\ UNCHANGED ttl_vars

\* db::end_stream: SET ended_at, title WHERE stream_id AND ended_at IS NULL
\* (the unfinished row of the stream_id; the rows before it are ended)
EndStream(t) ==
    LET tk == tasks[t] IN
    /\ tk.pc = "end_stream"
    /\ db_streams' = [db_streams EXCEPT ![tk.sid] =
          IF @ = NoRow \/ @.ended_at # NoTime THEN @
          ELSE [@ EXCEPT !.ended_at = tk.ts, !.title = tk.title]]
    /\ tasks' = [tasks EXCEPT ![t] = IdleTask]
    /\ last' = Outcome(t, "ok")
    /\ UNCHANGED <<up_stream, up_name, next_sid, booted, channels, chan_lock,
                   streams, mutex, chat, db_channels, starts, faults,
                   service_channels, api_vars>>
    /\ UNCHANGED ttl_vars

----------------------------------------------------------------------------
(* TwitchWebhook::untrack_channel and TwitchWebhook::track_channel *)

\* untrack_channel from streams.remove on, in task slot t: no entry and
\* it returns Ok; else it locks the Stream and goes on to delete_discord
StreamsRemove(c, t, timestamp) ==
    /\ streams' = [streams EXCEPT ![c] = NoStream]
    /\ IF ~Present(c)
       THEN /\ last' = Returned("untrack", c, "remove", "ok", 0)
            /\ tasks' = [tasks EXCEPT ![t] = IdleTask]
       ELSE /\ tasks' = [tasks EXCEPT ![t] =
                  [IdleTask EXCEPT !.pc = "delete_msg", !.kind = "untrack",
                                   !.chan = c, !.ts = timestamp,
                                   !.sid = streams[c].id,
                                   !.msg = streams[c].message_id]]
            /\ last' = NoOutcome

\* untrack_channel from channels.remove on, in task slot t: the channel
\* is removed, then streams.remove waits for the Refs on the entry
ChannelsRemove(c, t, timestamp) ==
    /\ channels' = [channels EXCEPT ![c] = NoChan]
    /\ IF RefHolders(c) # {}
       THEN /\ tasks' = [tasks EXCEPT ![t] =
                  [IdleTask EXCEPT !.pc = "remove", !.kind = "untrack",
                                   !.chan = c, !.ts = timestamp]]
            /\ last' = NoOutcome
            /\ UNCHANGED streams
       ELSE StreamsRemove(c, t, timestamp)

\* TwitchWebhook::untrack_channel(channel_id) is called: channels.remove
\* waits while an online handler keeps the entry of the channel
StartUntrack(c) ==
    /\ Serving
    /\ Invoke
    /\ IF chan_lock[c] = 0 /\ RefHolders(c) = {} /\ ~Present(c)
       THEN /\ channels' = [channels EXCEPT ![c] = NoChan]
            /\ last' = Returned("untrack", c, "remove", "ok", 0)
            /\ UNCHANGED <<tasks, streams>>
       ELSE /\ FreeTasks # {}
            /\ IF chan_lock[c] # 0
               THEN /\ tasks' = [tasks EXCEPT ![FreeTask] =
                          [IdleTask EXCEPT !.pc = "chan_remove",
                                           !.kind = "untrack",
                                           !.chan = c, !.ts = now]]
                    /\ last' = NoOutcome
                    /\ UNCHANGED <<channels, streams>>
               ELSE ChannelsRemove(c, FreeTask, now)
    /\ UNCHANGED <<up_stream, up_name, next_sid, booted, chan_lock, mutex,
                   chat, db_streams, db_channels, faults, service_channels,
                   api_vars>>

\* the entry of `channels` is released: channels.remove of the waiting
\* untrack_channel returns
ChannelsRemoved(t) ==
    LET tk == tasks[t] IN
    /\ tk.pc = "chan_remove"
    /\ chan_lock[tk.chan] = 0
    /\ ChannelsRemove(tk.chan, t, tk.ts)
    /\ UNCHANGED <<up_stream, up_name, next_sid, booted, chan_lock, mutex,
                   chat, db_streams, db_channels, starts, faults,
                   service_channels, api_vars>>
    /\ UNCHANGED ttl_vars

\* the Refs are dropped: streams.remove of the waiting untrack_channel
\* returns
StreamsRemoved(t) ==
    LET tk == tasks[t] IN
    /\ tk.pc = "remove"
    /\ tk.kind = "untrack"
    /\ RefHolders(tk.chan) = {}
    /\ StreamsRemove(tk.chan, t, tk.ts)
    /\ UNCHANGED <<up_stream, up_name, next_sid, booted, channels, chan_lock,
                   mutex, chat, db_streams, db_channels, starts, faults,
                   service_channels, api_vars>>
    /\ UNCHANGED ttl_vars

\* delete_discord
DeleteMsg(t) ==
    LET tk == tasks[t]
        there == chat[tk.msg].state \in {"live", "ended"}
    IN
    /\ tk.pc = "delete_msg"
    /\ chat' = [chat EXCEPT ![tk.msg] =
          IF ~there THEN @
          ELSE [@ EXCEPT !.state = "deleted", !.log = Append(@, "delete")]]
    /\ IF there
       THEN /\ tasks' = [tasks EXCEPT ![t] = [tk EXCEPT !.pc = "delete_stream"]]
            /\ last' = NoOutcome
       ELSE /\ tasks' = [tasks EXCEPT ![t] = IdleTask]
            /\ last' = Outcome(t, "err")
    /\ UNCHANGED <<up_stream, up_name, next_sid, booted, channels, chan_lock,
                   streams, mutex, db_streams, db_channels, starts, faults,
                   service_channels, api_vars>>
    /\ UNCHANGED ttl_vars

\* db::delete_stream: the rows of the stream_id are deleted
DeleteStream(t) ==
    LET tk == tasks[t] IN
    /\ tk.pc = "delete_stream"
    /\ db_streams' = [db_streams EXCEPT ![tk.sid] = NoRow]
    /\ tasks' = [tasks EXCEPT ![t] = IdleTask]
    /\ last' = Outcome(t, "ok")
    /\ UNCHANGED <<up_stream, up_name, next_sid, booted, channels, chan_lock,
                   streams, mutex, chat, db_channels, starts, faults,
                   service_channels, api_vars>>
    /\ UNCHANGED ttl_vars

\* TwitchWebhook::track_channel(user_id, channel) is called with the
\* db::Channel of some name: channels.insert puts it under the channel id,
\* over an entry that is there, and waits while an online handler keeps
\* that entry; then get_stream(user_id, false) probes for a stream
StartTrack(c, name) ==
    /\ Serving
    /\ Invoke
    /\ FreeTasks # {}
    /\ IF chan_lock[c] # 0
       THEN /\ tasks' = [tasks EXCEPT ![FreeTask] =
                  [IdleTask EXCEPT !.pc = "chan_insert", !.kind = "track",
                                   !.chan = c, !.ts = now, !.name = name]]
            /\ UNCHANGED channels
       ELSE /\ channels' = [channels EXCEPT ![c] = name]
            /\ tasks' = [tasks EXCEPT ![FreeTask] =
                  [IdleTask EXCEPT !.pc = "probe", !.kind = "track",
                                   !.chan = c, !.ts = now]]
    /\ UNCHANGED <<up_stream, up_name, next_sid, booted, chan_lock, streams,
                   mutex, chat, db_streams, db_channels, faults,
                   service_channels, api_vars>>
    /\ last' = NoOutcome

\* the entry of `channels` is released: channels.insert of the waiting
\* track_channel returns
ChannelsInserted(t) ==
    LET tk == tasks[t] IN
    /\ tk.pc = "chan_insert"
    /\ chan_lock[tk.chan] = 0
    /\ channels' = [channels EXCEPT ![tk.chan] = tk.name]
    /\ tasks' = [tasks EXCEPT ![t] = [tk EXCEPT !.pc = "probe", !.name = ""]]
    /\ UNCHANGED <<up_stream, up_name, next_sid, booted, chan_lock, streams,
                   mutex, chat, db_streams, db_channels, starts, faults,
                   service_channels, api_vars>>
    /\ last' = NoOutcome
    /\ UNCHANGED ttl_vars

\* api.get_stream(user_id, false) answers with the live stream; the online
\* handler is called with it and with stream.started_at as its timestamp
Probe(t) ==
    LET tk == tasks[t] IN
    /\ tk.pc = "probe"
    /\ up_stream[tk.chan].id # 0
    /\ tasks' = [tasks EXCEPT ![t] =
                   [tk EXCEPT !.pc = "get_channel",
                              !.sid = up_stream[tk.chan].id,
                              !.started = up_stream[tk.chan].started_at,
                              !.ts = up_stream[tk.chan].started_at,
                              !.had = Present(tk.chan)]]
    /\ UNCHANGED <<up_stream, up_name, next_sid, booted, channels, chan_lock,
                   streams, mutex, chat, db_streams, db_channels, starts,
                   faults, service_channels, api_vars>>
    /\ last' = NoOutcome
    /\ UNCHANGED ttl_vars

----------------------------------------------------------------------------
(* service/channel.rs: the TrackChannel and UntrackChannel RPCs *)

\* the calls ChannelService::track_channel and untrack_channel await
RpcCalls == {"get_channel_by_name", "db_track", "subscribe", "db_untrack",
             "unsubscribe"}

\* a table that never has the name
ContainsKeyNever(name) == FALSE

\* self.channels.contains_key(&name)
ContainsKey(name) == service_channels[name] # NoId

\* twitch_api.get_channel_by_name(&name): the channels of that login
ByName(name) == {c \in Channels : up_name[c] = name}

\* channels.channel_id is unique: the row of another name has the id
ChannelIdTaken(name, c) == db_channels[c] \notin {NoChan, name}

\* the outcome of an RPC: the status it returned and the calls it made
Answered(kind, who, at, res, calls) ==
    [Returned(kind, who, at, res, 0) EXCEPT !.calls = calls]

\* the upstream calls an RPC has made when it is at the await `pc`
UpstreamCalls(pc) ==
    IF pc \in {"subscribe", "unsubscribe", "insert", "remove"}
    THEN <<"get_channel_by_name", IF pc \in {"subscribe", "insert"}
                                  THEN "subscribe" ELSE "unsubscribe">>
    ELSE <<"get_channel_by_name">>

\* the RPC of task t is answered and its task ends
Answer(t, at, res) ==
    /\ last' = Answered(tasks[t].kind, tasks[t].chan, at, res,
                        UpstreamCalls(at))
    /\ tasks' = [tasks EXCEPT ![t] = IdleTask]

\* ChannelService::track_channel is called: AlreadyExists for a name that
\* is in its table; else it awaits get_channel_by_name
TrackChannel(name) ==
    /\ Serving
    /\ Invoke
    /\ IF ContainsKey(name)
       THEN /\ last' = Answered("TrackChannel", "", "contains_key",
                                "already_exists", <<>>)
            /\ UNCHANGED tasks
       ELSE /\ FreeTasks # {}
            /\ tasks' = [tasks EXCEPT ![FreeTask] =
                  [IdleTask EXCEPT !.pc = "get_channel_by_name",
                                   !.kind = "TrackChannel", !.name = name]]
            /\ last' = NoOutcome
    /\ UNCHANGED <<up_stream, up_name, next_sid, booted, channels, chan_lock,
                   streams, mutex, chat, db_streams, db_channels, faults,
                   service_channels, api_vars>>

\* ChannelService::untrack_channel is called: NotFound for a name that is
\* not in its table; else it awaits get_channel_by_name
UntrackChannel(name) ==
    /\ Serving
    /\ Invoke
    /\ IF ~ContainsKey(name)
       THEN /\ last' = Answered("UntrackChannel", "", "contains_key",
                                "not_found", <<>>)
            /\ UNCHANGED tasks
       ELSE /\ FreeTasks # {}
            /\ tasks' = [tasks EXCEPT ![FreeTask] =
                  [IdleTask EXCEPT !.pc = "get_channel_by_name",
                                   !.kind = "UntrackChannel", !.name = name]]
            /\ last' = NoOutcome
    /\ UNCHANGED <<up_stream, up_name, next_sid, booted, channels, chan_lock,
                   streams, mutex, chat, db_streams, db_channels, faults,
                   service_channels, api_vars>>

\* twitch_api.get_channel_by_name returns: no user of that login is an
\* error and the RPC answers Internal; else the RPC goes on to the store
GetChannelByName(t) ==
    LET tk == tasks[t]
        who == CHOOSE c \in ByName(tk.name) : TRUE
    IN
    /\ tk.pc = "get_channel_by_name"
    /\ IF ByName(tk.name) = {}
       THEN Answer(t, "get_channel_by_name", "internal")
       ELSE /\ tasks' = [tasks EXCEPT ![t] =
                  [tk EXCEPT !.chan = who,
                             !.pc = IF tk.kind = "TrackChannel"
                                    THEN "db_track" ELSE "db_untrack"]]
            /\ last' = NoOutcome
    /\ UNCHANGED <<up_stream, up_name, next_sid, booted, channels, chan_lock,
                   streams, mutex, chat, db_streams, db_channels, starts,
                   faults, service_channels, api_vars>>
    /\ UNCHANGED ttl_vars

\* db::track_channel returns: the row of the name is upserted, or the
\* store refuses it and the RPC answers Internal
DbTrack(t) ==
    LET tk == tasks[t] IN
    /\ tk.pc = "db_track"
    /\ IF ChannelIdTaken(tk.name, tk.chan)
       THEN /\ Answer(t, "db_track", "internal")
            /\ UNCHANGED db_channels
       ELSE /\ db_channels' = [db_channels EXCEPT ![tk.chan] = tk.name]
            /\ tasks' = [tasks EXCEPT ![t] = [tk EXCEPT !.pc = "subscribe"]]
            /\ last' = NoOutcome
    /\ UNCHANGED <<up_stream, up_name, next_sid, booted, channels, chan_lock,
                   streams, mutex, chat, db_streams, starts, faults,
                   service_channels, api_vars>>
    /\ UNCHANGED ttl_vars

\* the subscribe call returns Ok: the name is inserted into the table and
\* the RPC answers with the channel
Subscribed(t) ==
    LET tk == tasks[t] IN
    /\ tk.pc = "subscribe"
    /\ \E statuses \in ChannelStatuses :
          subs' = SubscribeChannel(subs, tk.chan, statuses)
    /\ service_channels' = [service_channels EXCEPT ![tk.name] = tk.chan]
    /\ Answer(t, "insert", "ok")
    /\ UNCHANGED <<up_stream, up_name, next_sid, booted, channels, chan_lock,
                   streams, mutex, chat, db_streams, db_channels, starts,
                   faults, call_vars>>
    /\ UNCHANGED ttl_vars

\* db::untrack_channel returns: the rows of the name are deleted
DbUntrack(t) ==
    LET tk == tasks[t] IN
    /\ tk.pc = "db_untrack"
    /\ db_channels' = [c \in Channels |->
                         IF db_channels[c] = tk.name THEN NoChan
                         ELSE db_channels[c]]
    /\ tasks' = [tasks EXCEPT ![t] = [tk EXCEPT !.pc = "unsubscribe"]]
    /\ last' = NoOutcome
    /\ UNCHANGED <<up_stream, up_name, next_sid, booted, channels, chan_lock,
                   streams, mutex, chat, db_streams, starts, faults,
                   service_channels, api_vars>>
    /\ UNCHANGED ttl_vars

\* unsubscribe(&channel.id) returns Ok: the name is removed from the
\* table and the RPC answers Ok
Unsubscribed(t) ==
    LET tk == tasks[t] IN
    /\ tk.pc = "unsubscribe"
    /\ subs' = Unsubscribe(subs, tk.chan)
    /\ service_channels' = [service_channels EXCEPT ![tk.name] = NoId]
    /\ Answer(t, "remove", "ok")
    /\ UNCHANGED <<up_stream, up_name, next_sid, booted, channels, chan_lock,
                   streams, mutex, chat, db_streams, db_channels, starts,
                   faults, call_vars>>
    /\ UNCHANGED ttl_vars

\* the call the RPC of task t awaits fails: the RPC answers Internal and
\* leaves what it did before (made: the subscriptions that were created
\* before the one that failed)
RpcFault(t, made) ==
    LET tk == tasks[t] IN
    /\ tk.pc \in RpcCalls
    /\ faults < MaxFaults
    /\ faults' = faults + 1
    /\ IF tk.pc = "subscribe"
       THEN /\ made # Kinds
            /\ \E statuses \in ChannelStatuses :
                  subs' = subs \cup
                          {x \in SubscribeChannel({}, tk.chan, statuses) :
                              x.kind \in made}
       ELSE /\ made = {}
            /\ UNCHANGED subs
    /\ Answer(t, tk.pc, "internal")
    /\ UNCHANGED <<up_stream, up_name, next_sid, booted, channels, chan_lock,
                   streams, mutex, chat, db_streams, db_channels, starts,
                   service_channels, call_vars>>
    /\ UNCHANGED ttl_vars

----------------------------------------------------------------------------
(* load_streams: the bootstrap of TwitchWebhook::new *)

\* a bootstrap that finds no row
StoredNever(row) == FALSE

\* db::get_streams(pool, None) has the row: it is there and not ended
Stored(row) == row # NoRow /\ row.ended_at = NoTime

\* list the channels, load the unfinished rows, ask the upstream for the
\* live streams and call the online handler for each, the stored row of
\* the same stream id as its preload
LoadStreams ==
    LET c == BootChannel
        live == db_channels[c] # NoChan /\ up_stream[c].id # 0
        row == db_streams[up_stream[c].id]
        stored == Stored(row)
    IN
    /\ ~booted
    /\ booted' = TRUE
    /\ tasks' = IF ~live THEN tasks
                ELSE [tasks EXCEPT ![1] =
                        [IdleTask EXCEPT
                           !.pc = "get_channel", !.kind = "boot", !.chan = c,
                           !.sid = up_stream[c].id,
                           !.started = up_stream[c].started_at,
                           !.ts = up_stream[c].started_at,
                           !.pre = stored,
                           !.pmsg = IF stored THEN row.message_id ELSE 0,
                           !.pevents = IF stored THEN row.events ELSE <<>>]]
    /\ UNCHANGED <<up_stream, up_name, next_sid, channels, chan_lock,
                   streams, mutex, chat, db_streams, db_channels, starts,
                   faults, service_channels, api_vars>>
    /\ last' = NoOutcome
    /\ UNCHANGED ttl_vars

----------------------------------------------------------------------------
(* Failing calls *)

\* the awaits whose call can fail
Fallible == {"get_stream", "probe", "get_channel", "update_channel", "send",
             "start_stream", "update_stream", "edit", "off_edit",
             "end_stream", "delete_msg", "delete_stream"}

\* a failing call that leaves a runtime Stream behind
FaultLeavesEntry(t) ==
    LET tk == tasks[t] IN
    /\ tk.pc \in Fallible
    /\ faults < MaxFaults
    /\ faults' = faults + 1
    /\ tasks' = [tasks EXCEPT ![t] = IdleTask]
    /\ \/ last' = Outcome(t, IF tk.pc \in {"get_stream", "probe"}
                             THEN "ok" ELSE "err")
       \/ /\ tk.pc = "get_stream"
          /\ last' = [Outcome(t, "err") EXCEPT !.at = "get_channel"]
    /\ chan_lock' = Release(chan_lock, t)
    /\ mutex' = Release(mutex, t)
    /\ streams' = [streams EXCEPT ![tk.chan] =
                     IF @ = NoStream
                     THEN NewStream(tk, up_name[tk.chan], 0, <<>>) ELSE @]
    /\ UNCHANGED <<up_stream, up_name, next_sid, booted, channels,
                   chat, db_streams, db_channels, starts, service_channels, api_vars>>
    /\ UNCHANGED ttl_vars

\* The call task t awaits fails: the handler returns the error and drops
\* what it holds; a failed stream lookup is only logged, and of the two
\* lookups the spawned handler joins (pc get_stream) the channel lookup
\* may be the one that failed, which is an error
Fault(t) ==
    LET tk == tasks[t] IN
    /\ tk.pc \in Fallible
    /\ faults < MaxFaults
    /\ faults' = faults + 1
    /\ tasks' = [tasks EXCEPT ![t] = IdleTask]
    /\ \/ last' = Outcome(t, IF tk.pc \in {"get_stream", "probe"}
                             THEN "ok" ELSE "err")
       \/ /\ tk.pc = "get_stream"
          /\ last' = [Outcome(t, "err") EXCEPT !.at = "get_channel"]
    /\ chan_lock' = Release(chan_lock, t)
    /\ mutex' = Release(mutex, t)
    /\ UNCHANGED <<up_stream, up_name, next_sid, booted, channels, streams,
                   chat, db_streams, db_channels, starts, service_channels, api_vars>>
    /\ UNCHANGED ttl_vars

----------------------------------------------------------------------------
(* TwitchWebhook::verify, WebhookError::status and handle_message *)

RecentTtl == 600                      \* Duration::from_secs(10 * 60)
MAX_TIMESTAMP_AGE_SECONDS == 600
MAX_FUTURE_TIMESTAMP_SECONDS == 180

WEBHOOK_VERIFICATION_TYPE == "webhook_callback_verification"
NOTIFICATION_TYPE == "notification"

\* the secret the subscriptions were made with, and another one
Secret == "secret"
OtherKey == "guess"

\* the Twitch-Eventsub-Message-Timestamp header: an RFC 3339 instant, or
\* text that DateTime::parse_from_rfc3339 refuses
Rfc3339(secs) == [text |-> "rfc3339", secs |-> secs]
Garbage == [text |-> "garbage", secs |-> 0]
Parsable(timestamp_str) == timestamp_str.text = "rfc3339"
ParseTimestamp(timestamp_str) == timestamp_str.secs

\* HMAC-SHA256 of message_id || timestamp_str || body under a key
Hmac(key, message_id, timestamp_str, body) ==
    [key |-> key, data |-> <<message_id, timestamp_str, body>>]

\* verify: `if !self.recent_messages.insert(..)` is the duplicate
Replayed(inserted) == ~inserted

\* an age check that also refuses the age of MAX_TIMESTAMP_AGE_SECONDS
TooOldAtMax(age) == age >= MAX_TIMESTAMP_AGE_SECONDS

\* a skew check that also refuses MAX_FUTURE_TIMESTAMP_SECONDS ahead
TooNewAtMax(age) == age <= -MAX_FUTURE_TIMESTAMP_SECONDS

\* a mapping that answers every error with 204
StatusNoContent(e) == 204

\* verify: age > MAX_TIMESTAMP_AGE_SECONDS
TooOld(age) == age > MAX_TIMESTAMP_AGE_SECONDS

\* verify: age < -MAX_FUTURE_TIMESTAMP_SECONDS
TooNew(age) == age < -MAX_FUTURE_TIMESTAMP_SECONDS

\* a comparison that takes every signature for the right one
VerifySliceAny(expected, received) == TRUE

\* mac.verify_slice(&received_sig_bytes): the two codes are equal
VerifySlice(expected, received) == expected = received

\* verify: now.signed_duration_since(timestamp), in seconds
Age(req) ==
    IF req.hdr /\ Parsable(req.tstr) THEN now - ParseTimestamp(req.tstr)
    ELSE 0

\* verify: the message of the VerificationFailed it returns, in the order
\* of its checks, "" when it returns another error or Ok
Why(req) ==
    IF ~req.hdr \/ Replayed(Inserted(req.msgid)) \/ ~Parsable(req.tstr)
    THEN ""
    ELSE IF TooOld(Age(req)) THEN "Timestamp is too old"
    ELSE IF TooNew(Age(req)) THEN "Timestamp is in the future"
    ELSE IF ~req.prefix THEN "Signature missing prefix"
    ELSE IF ~req.hex THEN "Invalid hex"
    ELSE IF ~VerifySlice(Hmac(Secret, req.msgid, req.tstr, req.body),
                         req.mac)
    THEN "Signature mismatch"
    ELSE ""

\* verify: the error it returns, or Ok, in the order of its checks
Verify(req) ==
    IF ~req.hdr THEN "MissingHeader"
    ELSE IF Replayed(Inserted(req.msgid)) THEN "DuplicateMessageId"
    ELSE IF ~Parsable(req.tstr) THEN "InvalidHeaderValue"
    ELSE IF Why(req) # "" THEN "VerificationFailed"
    ELSE "Ok"

\* IntoResponse for WebhookError: the body of the response
ErrorBody(e) ==
    CASE e \in {"InternalServerError", "DatabaseError"} ->
            "Internal Server Error"
      [] e \in {"DuplicateMessageId", "VerificationFailed"} -> ""
      [] OTHER -> e

\* a mapping that answers every error with 403
StatusForbidden(e) == 403

\* WebhookError::status
Status(e) ==
    CASE e = "VerificationFailed" -> 403
      [] e \in {"BadPayload", "MissingHeader", "InvalidHeaderValue",
                "UnknownMessageType"} -> 400
      [] e = "DuplicateMessageId" -> 204
      [] e \in {"InternalServerError", "DatabaseError"} -> 500

\* the bodies: a challenge, the three notifications, a notification of
\* another subscription type, and bytes that are no JSON of the kind asked
Body(sub, c, u) ==
    [sub |-> sub, chan |-> c, title |-> u.title, category |-> u.category,
     challenge |-> IF sub = "challenge" THEN "ch4llenge" ELSE ""]
NoUpdate == [title |-> "", category |-> ""]
NotificationBodies ==
    {Body(sub, c, NoUpdate) :
        sub \in {"stream.online", "stream.offline", "user.update",
                 "malformed"}, c \in Channels}
    \cup {Body("channel.update", c, u) : c \in Channels, u \in UpdateInputs}
ChallengeBody == Body("challenge", "", NoUpdate)

\* a request signed by the platform: all headers, the timestamp off seconds
\* from the clock
Signed(id, off, mtype, body) ==
    [hdr |-> TRUE, msgid |-> id, tstr |-> Rfc3339(now + off),
     prefix |-> TRUE, hex |-> TRUE,
     mac |-> Hmac(Secret, id, Rfc3339(now + off), body),
     mtype |-> mtype, body |-> body]

\* the offsets of the timestamp header tried: the edges of the window
Offsets == {-601, -600, -599, 0, 180, 181}

\* the requests tried: the platform's, and a signed online notification
\* with one thing wrong
Requests ==
    {Signed(id, 0, NOTIFICATION_TYPE, body) :
        id \in Keys, body \in NotificationBodies}
    \cup {Signed(id, off, NOTIFICATION_TYPE,
                 Body("stream.online", BootChannel, NoUpdate)) :
             id \in Keys, off \in {-601, 181}}
    \cup {Signed(id, off, WEBHOOK_VERIFICATION_TYPE, ChallengeBody) :
             id \in Keys, off \in Offsets}
    \cup {Signed(id, 0, mtype, body) :
             id \in Keys, mtype \in {"revocation", ""},
             body \in {Body("stream.online", BootChannel, NoUpdate)}}
    \cup {Signed(id, 0, WEBHOOK_VERIFICATION_TYPE,
                 Body("malformed", BootChannel, NoUpdate)) : id \in Keys}
    \cup UNION {
           LET good == Signed(id, 0, NOTIFICATION_TYPE,
                              Body("stream.online", BootChannel, NoUpdate))
           IN {[good EXCEPT !.hdr = FALSE],
               [good EXCEPT !.tstr = Garbage],
               [good EXCEPT !.prefix = FALSE],
               [good EXCEPT !.hex = FALSE],
               [good EXCEPT !.mac = Hmac(OtherKey, id, good.tstr, good.body)],
               [good EXCEPT !.mac = Hmac(Secret, CHOOSE k \in Keys : k # id,
                                         good.tstr, good.body)]}
           : id \in Keys}

\* the request is answered with the status of error e; no handler runs
Refuse(e) ==
    /\ last' = [Returned("request", "", e, "err", Status(e))
                   EXCEPT !.body = ErrorBody(e)]
    /\ UNCHANGED <<up_stream, up_name, next_sid, booted, channels, chan_lock,
                   streams, mutex, tasks, chat, db_streams, db_channels,
                   faults, service_channels, api_vars>>

\* handle_message after verify: the message-type header decides
Dispatch(req, timestamp) ==
    IF req.mtype = "" THEN Refuse("MissingHeader")
    ELSE IF req.mtype = WEBHOOK_VERIFICATION_TYPE
    THEN IF req.body.sub # "challenge" THEN Refuse("BadPayload")
         ELSE /\ last' = [Returned("request", "", "challenge", "ok", 200)
                            EXCEPT !.body = req.body.challenge]
              /\ UNCHANGED <<up_stream, up_name, next_sid, booted, channels,
                             chan_lock, streams, mutex, tasks, chat,
                             db_streams, db_channels, faults,
                             service_channels, api_vars>>
    ELSE IF req.mtype = NOTIFICATION_TYPE
    THEN CASE req.body.sub = "stream.online" ->
                OnlineNotification(req.body.chan, timestamp)
           [] req.body.sub = "stream.offline" ->
                StreamOffline(req.body.chan, timestamp)
           [] req.body.sub = "channel.update" ->
                ChannelUpdate(req.body.chan,
                              [title |-> req.body.title,
                               category |-> req.body.category], timestamp)
           [] req.body.sub \in {"malformed", "challenge"} ->
                Refuse("BadPayload")
           [] OTHER ->
                /\ last' = Returned("request", "", "unknown", "ok", 204)
                /\ UNCHANGED <<up_stream, up_name, next_sid, booted,
                               channels, chan_lock, streams, mutex, tasks,
                               chat, db_streams, db_channels, faults,
                               service_channels, api_vars>>
    ELSE Refuse("UnknownMessageType")

\* handle_message: a request arrives. verify does not suspend and shares
\* only the insert into recent_messages with other requests, so the request
\* is verified and dispatched in the step of that insert
Receive(req) ==
    /\ Serving
    /\ starts' = starts + 1
    /\ IF req.hdr
       THEN Insert(req.msgid, RecentTtl)
       ELSE UNCHANGED <<map, recorded, ttl_last>>
    /\ verdict' = [err |-> Verify(req), why |-> Why(req), age |-> Age(req)]
    /\ UNCHANGED <<now, janitor, callers, tally>>
    /\ IF Verify(req) = "Ok"
       THEN Dispatch(req, ParseTimestamp(req.tstr))
       ELSE Refuse(Verify(req))

\* the clock of the webhook server moves on by TickStep seconds
Elapse ==
    /\ now < MaxClock
    /\ now' = now + TickStep
    /\ UNCHANGED <<map, janitor, callers, recorded, ttl_last, verdict, tally>>
    /\ UNCHANGED engine_vars

----------------------------------------------------------------------------
(* The stream lifecycle engine *)

Next ==
    \/ LoadStreams
    \/ \E c \in Channels : GoLive(c)
    \/ \E c \in Channels : GoOffline(c)
    \/ \E c \in Channels : StartOnline(c)
    \/ \E c \in Channels, u \in UpdateInputs : StartUpdate(c, u)
    \/ \E c \in Channels : StartOffline(c)
    \/ \E c \in Channels : StartUntrack(c)
    \/ \E c \in Channels : StartTrack(c, up_name[c])
    \/ \E t \in Tasks : ChannelsRemoved(t)
    \/ \E t \in Tasks : StreamsRemoved(t)
    \/ \E t \in Tasks : ChannelsInserted(t)
    \/ \E t \in Tasks : EntryReturns(t)
    \/ \E t \in Tasks : StreamsInsert(t)
    \/ \E t \in Tasks : GetStream(t)
    \/ \E t \in Tasks : GetStreamNone(t)
    \/ \E t \in Tasks : GetChannel(t)
    \/ \E t \in Tasks : UpdateChannel(t)
    \/ \E t \in Tasks : Send(t)
    \/ \E t \in Tasks : StartStream(t)
    \/ \E t \in Tasks : Probe(t)
    \/ \E t \in Tasks : Lock(t)
    \/ \E t \in Tasks : UpdateStream(t)
    \/ \E t \in Tasks : EditLive(t)
    \/ \E t \in Tasks : Removed(t)
    \/ \E t \in Tasks : OffEdit(t)
    \/ \E t \in Tasks : EndStream(t)
    \/ \E t \in Tasks : DeleteMsg(t)
    \/ \E t \in Tasks : DeleteStream(t)
    \/ \E t \in Tasks : Fault(t)

Spec == Init /\ [][Next]_vars

\* the call the handler of task t awaits returns
Resume(t) ==
    \/ GetStream(t)
    \/ GetStreamNone(t)
    \/ GetChannel(t)
    \/ UpdateChannel(t)
    \/ Send(t)
    \/ StartStream(t)
    \/ Probe(t)
    \/ Lock(t)
    \/ UpdateStream(t)
    \/ EditLive(t)
    \/ OffEdit(t)
    \/ EndStream(t)
    \/ DeleteMsg(t)
    \/ DeleteStream(t)

\* the call of `channels` or `streams` the thread of task t waits in
\* returns
Wake(t) ==
    \/ Removed(t)
    \/ EntryReturns(t)
    \/ StreamsInsert(t)
    \/ ChannelsRemoved(t)
    \/ StreamsRemoved(t)
    \/ ChannelsInserted(t)

\* a step of the handler of task t
Step(t) == Resume(t) \/ Wake(t)

\* the runtime polls every task that can go on, and every call of the
\* store, the chat and the upstream returns; the notifications, the
\* broadcasts and the failures come as they come
Fairness == \A t \in Tasks : WF_vars(Step(t))

\* the engine with its tasks scheduled fairly
FairSpec == Init /\ [][Next]_vars /\ Fairness

\* the most worker threads of the runtime that #[tokio::main] builds: it
\* has one per core of the host
MaxWorkers == 2

\* the handlers whose worker thread is parked inside a call of DashMap
\* (streams.remove and streams.insert behind a Ref, channels.entry,
\* channels.remove and channels.insert behind a kept entry): the lock of
\* the shard blocks the thread, it does not suspend the task
Parked ==
    {t \in Tasks : tasks[t].pc \in {"remove", "insert", "entry",
                                     "chan_remove", "chan_insert"}}

\* a worker thread is left to poll a task
FreeWorker == Cardinality(Parked) < app.workers

\* the handler of task t resumes on a worker thread that is free for it
Poll(t) == FreeWorker /\ Resume(t)

\* the engine on its worker threads: a notification is taken up and a
\* suspended handler is polled only by a thread that is not parked
WorkerNext ==
    \/ LoadStreams
    \/ \E c \in Channels : GoLive(c)
    \/ \E c \in Channels : GoOffline(c)
    \/ \E c \in Channels : FreeWorker /\ StartOnline(c)
    \/ \E c \in Channels, u \in UpdateInputs :
          FreeWorker /\ StartUpdate(c, u)
    \/ \E c \in Channels : FreeWorker /\ StartOffline(c)
    \/ \E c \in Channels : FreeWorker /\ StartUntrack(c)
    \/ \E t \in Tasks : Removed(t)
    \/ \E t \in Tasks : EntryReturns(t)
    \/ \E t \in Tasks : StreamsInsert(t)
    \/ \E t \in Tasks : ChannelsRemoved(t)
    \/ \E t \in Tasks : StreamsRemoved(t)
    \/ \E t \in Tasks : FreeWorker /\ GetStream(t)
    \/ \E t \in Tasks : FreeWorker /\ GetStreamNone(t)
    \/ \E t \in Tasks : FreeWorker /\ GetChannel(t)
    \/ \E t \in Tasks : FreeWorker /\ UpdateChannel(t)
    \/ \E t \in Tasks : FreeWorker /\ Send(t)
    \/ \E t \in Tasks : FreeWorker /\ StartStream(t)
    \/ \E t \in Tasks : FreeWorker /\ Lock(t)
    \/ \E t \in Tasks : FreeWorker /\ UpdateStream(t)
    \/ \E t \in Tasks : FreeWorker /\ EditLive(t)
    \/ \E t \in Tasks : FreeWorker /\ OffEdit(t)
    \/ \E t \in Tasks : FreeWorker /\ EndStream(t)
    \/ \E t \in Tasks : FreeWorker /\ DeleteMsg(t)
    \/ \E t \in Tasks : FreeWorker /\ DeleteStream(t)

\* every call of the store, the chat and the upstream returns, a handler
\* that can go on is polled when a worker thread is free, and a parked
\* thread goes on when the lock it waits for is free
WorkerFairness ==
    \A t \in Tasks :
       WF_vars(Poll(t)) /\ WF_vars(Wake(t))

\* the engine as Init has it, on a host of one core or more
InitWorkers ==
    /\ TtlInit
    /\ \E tracked \in BOOLEAN, row \in BOOLEAN, live \in 0..1, n \in Names :
          /\ row => tracked
          /\ EngineStateWith(tracked, row, live, n,
                             <<UpdateEvent(StreamTitle, StreamGame, 0)>>)
          /\ subs = IF tracked
                    THEN SubscribeChannel({}, BootChannel, AllEnabled)
                    ELSE {}
    /\ sync = NoSync
    /\ unsub = NoUnsub
    /\ fetch = NoFetch
    /\ batch = NoBatch
    /\ duration = NoDuration
    /\ \E w \in 1..MaxWorkers : app = [Running EXCEPT !.workers = w]

SpecWorkers == InitWorkers /\ [][WorkerNext]_vars /\ WorkerFairness

\* the process as app.rs wires it: the webhook engine receives the
\* notifications, the gRPC service has ChannelService alone
ServiceNext ==
    \/ LoadStreams
    \/ \E c \in Channels : GoLive(c)
    \/ \E c \in Channels : GoOffline(c)
    \/ \E c \in Channels : StartOnline(c)
    \/ \E c \in Channels, u \in UpdateInputs : StartUpdate(c, u)
    \/ \E c \in Channels : StartOffline(c)
    \/ \E name \in Names : TrackChannel(name)
    \/ \E name \in Names : UntrackChannel(name)
    \/ \E t \in Tasks : GetChannelByName(t)
    \/ \E t \in Tasks : DbTrack(t)
    \/ \E t \in Tasks : Subscribed(t)
    \/ \E t \in Tasks : DbUntrack(t)
    \/ \E t \in Tasks : Unsubscribed(t)
    \/ \E t \in Tasks, made \in SUBSET Kinds : RpcFault(t, made)
    \/ \E t \in Tasks : GetStream(t)
    \/ \E t \in Tasks : GetStreamNone(t)
    \/ \E t \in Tasks : GetChannel(t)
    \/ \E t \in Tasks : UpdateChannel(t)
    \/ \E t \in Tasks : EntryReturns(t)
    \/ \E t \in Tasks : Send(t)
    \/ \E t \in Tasks : StreamsInsert(t)
    \/ \E t \in Tasks : StartStream(t)
    \/ \E t \in Tasks : Lock(t)
    \/ \E t \in Tasks : UpdateStream(t)
    \/ \E t \in Tasks : EditLive(t)
    \/ \E t \in Tasks : Removed(t)
    \/ \E t \in Tasks : OffEdit(t)
    \/ \E t \in Tasks : EndStream(t)
    \/ \E t \in Tasks : Fault(t)

SpecService == Init /\ [][ServiceNext]_vars

SpecTtl == InitTtl /\ [][TtlNext]_vars

\* the webhook server: requests, the clock, the janitor and the handlers
WebhookNext ==
    \/ /\ starts < MaxRequests
       /\ \E req \in Requests : Receive(req)
    \/ Elapse
    \/ JanitorWake
    \/ JanitorRetain
    \/ LoadStreams
    \/ \E c \in Channels : GoLive(c)
    \/ \E c \in Channels : GoOffline(c)
    \/ \E t \in Tasks : GetStream(t)
    \/ \E t \in Tasks : GetStreamNone(t)
    \/ \E t \in Tasks : GetChannel(t)
    \/ \E t \in Tasks : EntryReturns(t)
    \/ \E t \in Tasks : UpdateChannel(t)
    \/ \E t \in Tasks : Send(t)
    \/ \E t \in Tasks : StartStream(t)
    \/ \E t \in Tasks : Lock(t)
    \/ \E t \in Tasks : UpdateStream(t)
    \/ \E t \in Tasks : EditLive(t)
    \/ \E t \in Tasks : Removed(t)
    \/ \E t \in Tasks : OffEdit(t)
    \/ \E t \in Tasks : EndStream(t)

SpecWebhook == InitWebhook /\ [][WebhookNext]_vars

\* verification and dispatch at one instant of the clock: requests, the
\* upstream and the handlers
VerifyNext ==
    \/ /\ starts < MaxVerified
       /\ \E req \in Requests : Receive(req)
    \/ LoadStreams
    \/ \E c \in Channels : GoLive(c)
    \/ \E c \in Channels : GoOffline(c)
    \/ \E t \in Tasks : GetStream(t)
    \/ \E t \in Tasks : GetStreamNone(t)
    \/ \E t \in Tasks : GetChannel(t)
    \/ \E t \in Tasks : EntryReturns(t)
    \/ \E t \in Tasks : UpdateChannel(t)
    \/ \E t \in Tasks : Send(t)
    \/ \E t \in Tasks : StartStream(t)
    \/ \E t \in Tasks : Lock(t)
    \/ \E t \in Tasks : UpdateStream(t)
    \/ \E t \in Tasks : EditLive(t)
    \/ \E t \in Tasks : Removed(t)
    \/ \E t \in Tasks : OffEdit(t)
    \/ \E t \in Tasks : EndStream(t)

SpecVerify == InitWebhook /\ [][VerifyNext]_vars

\* what start_stream and update_stream have stored for a stream that is
\* live: the initial event, then up to MaxStored - 1 updates, in the order
\* of their timestamps
StoredEvents ==
    {[title |-> u[1], category |-> u[2], timestamp |-> Instant(-k)] :
        u \in {<<"t0", "g0">>, <<"t1", "g1">>, <<"t1", "g2">>,
                <<"t0", "g3">>},
        k \in 0..MaxPast}

StoredLists ==
    UNION {{events \in [1..n -> StoredEvents] :
               /\ events[1].title = StreamTitle
               /\ events[1].category = StreamGame
               /\ \A i \in 1..(n - 1) :
                     events[i].timestamp <= events[i + 1].timestamp}
           : n \in 1..MaxStored}

\* the server starts with stream 1 live, its row stored or not, and the
\* channel under its stored name or a newer one
InitOffline ==
    /\ TtlInit
    /\ \E events \in StoredLists, row \in BOOLEAN, n \in Names :
          EngineInitWith(TRUE, row, 1, n, events)

\* the bootstrap, then offline notifications
OfflineNext ==
    \/ LoadStreams
    \/ \E t \in Tasks : GetChannel(t)
    \/ \E t \in Tasks : UpdateChannel(t)
    \/ \E t \in Tasks : Send(t)
    \/ \E t \in Tasks : StartStream(t)
    \/ \E c \in Channels : StartOffline(c)
    \/ \E t \in Tasks : OffEdit(t)
    \/ \E t \in Tasks : EndStream(t)

SpecOffline == InitOffline /\ [][OfflineNext]_vars

\* the events tally_categories is given: two or more, their timestamps in
\* ascending order as sort_by_key leaves them
Events ==
    [title : {"t0", "t1"}, category : {"g0", "g1"}, timestamp : 0..MaxStamp]

EventLists ==
    UNION {{events \in [1..n -> Events] :
               \A i \in 1..(n - 1) :
                  events[i].timestamp <= events[i + 1].timestamp}
           : n \in 2..MaxEvents}

\* tally_categories(events), called once: the maps it builds and the title
\* it returns
TallyCall(events) ==
    /\ tally = NoTally
    /\ \E title \in MaxTitles(events) :
          tally' = [events |-> events, titles |-> TitleTally(events),
                    categories |-> CategoryTally(events), title |-> title]
    /\ UNCHANGED <<now, map, janitor, callers, recorded, ttl_last, verdict>>
    /\ UNCHANGED engine_vars

\* tally_categories on its own
TallyNext == \E events \in EventLists : TallyCall(events)

SpecTally == InitTtl /\ [][TallyNext]_vars

----------------------------------------------------------------------------
(* TwitchAPI::sync on its own *)

\* the broadcasters the upstream has subscriptions for
Users == {"42", "7"}

\* the ids of the subscriptions the upstream has before the call
SubIds == {"s1", "s2", "s3"}

\* the events those subscriptions are for: any of the three for the
\* channel sync may be asked for, one for the other broadcaster
ListedKinds(u) == IF u = "42" THEN Kinds ELSE {"stream.online"}

\* the statuses the upstream reports
Statuses == {"enabled", "authorization_revoked"}

\* what the upstream may hold: for each id nothing or one subscription
Holdings ==
    LET None == Subscription("", "", "", "")
        choice == {None} \cup
                  {Subscription("", p[1], p[2], st) :
                     p \in {q \in Users \X Kinds : q[2] \in ListedKinds(q[1])},
                     st \in Statuses}
    IN {{[f[id] EXCEPT !.id = id] : id \in {x \in SubIds : f[x] # None}} :
          f \in [SubIds -> choice]}

\* the orders in which the upstream may list its subscriptions
Listings(s) ==
    {l \in [1..Cardinality(s) -> s] :
       \A i, j \in 1..Cardinality(s) : l[i] = l[j] => i = j}

\* the lists of channel ids sync is called with
ChannelLists == {<<>>, <<"42">>, <<"42", "42">>}

\* the upstream holds some subscriptions, the engine has nothing to do
InitSync ==
    /\ TtlInit
    /\ EngineStateWith(FALSE, FALSE, 0, "alice", <<>>)
    /\ subs \in Holdings
    /\ sync = NoSync
    /\ unsub = NoUnsub
    /\ fetch = NoFetch
    /\ batch = NoBatch
    /\ app = Running
    /\ duration = NoDuration

\* one call of sync or one call of unsubscribe_channel
SyncNext ==
    \/ /\ sync = NoSync
       /\ unsub = NoUnsub
       /\ \E ids \in ChannelLists, listed \in Listings(subs),
             ok \in BOOLEAN : SyncCall(ids, listed, ok)
    \/ \E op \in sync.pending, ok \in BOOLEAN, status \in CreatedStatuses :
          SyncReturn(op, ok, status)
    \/ SyncJoin
    \/ /\ sync = NoSync
       /\ \E user_id \in Users, ok \in BOOLEAN :
             UnsubscribeChannelCall(user_id, ok)
    \/ \E id \in SubIds, ok \in BOOLEAN : UnsubscribeReturn(id, ok)

SpecSync == InitSync /\ [][SyncNext]_vars

----------------------------------------------------------------------------
(* The process from its start to its return: the online notifications     *)
(* and their spawned tasks, the shutdown signal and the two servers        *)

\* the webhook server accepts requests until the token is cancelled; the
\* tasks of the runtime run until run, and with it main, has returned
ShutdownNext ==
    \/ LoadStreams
    \/ \E c \in Channels : GoLive(c)
    \/ \E c \in Channels : GoOffline(c)
    \/ /\ ~app.cancelled
       /\ \E c \in Channels : StartOnline(c)
    \/ /\ app.run = "running"
       /\ \E t \in Tasks : GetStream(t)
    \/ /\ app.run = "running"
       /\ \E t \in Tasks : GetStreamNone(t)
    \/ /\ app.run = "running"
       /\ \E t \in Tasks : GetChannel(t)
    \/ /\ app.run = "running"
       /\ \E t \in Tasks : EntryReturns(t)
    \/ /\ app.run = "running"
       /\ \E t \in Tasks : UpdateChannel(t)
    \/ /\ app.run = "running"
       /\ \E t \in Tasks : Send(t)
    \/ /\ app.run = "running"
       /\ \E t \in Tasks : StartStream(t)
    \/ /\ app.run = "running"
       /\ \E t \in Tasks : Fault(t)
    \/ Cancel
    \/ GrpcShutDown
    \/ GracefulShutdown
    \/ JoinNext

SpecShutdown == Init /\ [][ShutdownNext]_vars

----------------------------------------------------------------------------
(* human_duration on its own *)

\* the longest and the most negative duration of the calls, in seconds
MaxElapsed == 7320
MaxAhead == 130

\* human_duration for a stream started at second MaxAhead and a
\* notification at any second from 0 to MaxAhead + MaxElapsed
DurationNext ==
    \E end \in 0..(MaxAhead + MaxElapsed) : HumanDurationCall(MaxAhead, end)

SpecDuration == InitTtl /\ [][DurationNext]_vars

----------------------------------------------------------------------------
(* TwitchAPI::get_stream and TwitchAPI::get_streams on their own *)

\* the longest list of user ids get_streams is called with
MaxIds == 250

\* the first n user ids
UserIds(n) == [i \in 1..n |-> i]

\* get_stream with and without retry, every answer at every attempt
FetchNext ==
    \/ \E retry \in BOOLEAN : GetStreamCall(retry)
    \/ \E answer \in Answers : GetStreamAttempt(answer)
    \/ GetStreamSleep

SpecFetch == InitTtl /\ [][FetchNext]_vars

\* get_streams with 0 to MaxIds ids, every answer to every request
BatchNext ==
    \/ \E n \in 0..MaxIds : GetStreamsCall(UserIds(n))
    \/ \E answer \in BatchAnswers : GetStreamsRequest(answer)

SpecBatch == InitTtl /\ [][BatchNext]_vars

----------------------------------------------------------------------------
(* Claims C1 to C6: the stream lifecycle handlers, under Spec *)

\* C1: among the online handlers that stream.online notifications have
\* spawned and that run concurrently for one broadcaster, exactly one
\* creates state: at most one of them is past the presence check on
\* `streams`, every other one has left at that check.
C1_OneOnlineHandlerCreates ==
    \A c \in Channels :
       Cardinality({t \in Tasks :
                      /\ tasks[t].kind = "online"
                      /\ tasks[t].chan = c
                      /\ tasks[t].pc \in {"entry", "update_channel",
                                          "send", "insert",
                                          "start_stream"}}) <= 1

\* C2: each stream has at most one chat message ever sent for it, and every
\* edit or delete issued for the stream goes to that message.
C2_OneMessagePerStream ==
    /\ \A s \in StreamIds :
          Cardinality({m \in MsgIds : chat[m].state # "none"
                                      /\ chat[m].sid = s}) <= 1
    /\ \A t \in Tasks :
          tasks[t].pc \in {"edit", "off_edit", "delete_msg"}
             => chat[tasks[t].msg].sid = tasks[t].sid

\* C3: when online, update and offline are delivered in that order for a
\* channel, the card is sent, then edited live, then edited ended: no card
\* is sent by an online handler that an update or offline notification
\* delivered after its own has overtaken, and no live edit follows the
\* ended edit of a card.
C3_DeliveryOrderKept ==
    \A m \in MsgIds :
       /\ chat[m].missed = {}
       /\ \A i, j \in 1..Len(chat[m].log) :
             chat[m].log[i] = "ended" /\ chat[m].log[j] = "live" => j < i

\* C4: an update handler and an offline handler of one runtime Stream never
\* overlap: while an update handler is at work on a card, no offline
\* handler has removed the entry of that card, and the card is not ended
\* (so neither a live edit nor an event append follows the offline).
C4_UpdateOfflineAtomic ==
    \A u \in Tasks :
       tasks[u].kind = "update" /\ tasks[u].pc # "idle"
          => /\ chat[tasks[u].msg].state # "ended"
             /\ \A t \in Tasks :
                   tasks[t].kind = "offline" /\ tasks[t].pc # "idle"
                      => tasks[t].msg # tasks[u].msg

\* C4, the case happens: a card that was sent, edited live by an update and
\* then ended by the offline handler, whose row is ended
C4_Witness ==
    \E m \in MsgIds :
       /\ chat[m].log = <<"send", "live", "ended">>
       /\ chat[m].sid # 0
       /\ db_streams[chat[m].sid].ended_at # NoTime

\* C5: an online handler invoked for a broadcaster that has a runtime
\* Stream at that moment is a no-op: no step of it adds or changes a stream
\* row, sends or edits a chat message, or changes the runtime Stream table.
C5_OnlineExistingNoop ==
    [][\A t \in Tasks :
          (/\ tasks[t].kind \in {"online", "track"}
           /\ tasks[t].had
           /\ tasks'[t].pc # tasks[t].pc)
          => UNCHANGED <<streams, chat, db_streams>>]_vars

\* C6: a channel.update or stream.offline notification for a broadcaster
\* without a runtime Stream changes nothing in the table, the store or the
\* chat, starts no handler work, and is answered 204.
C6_NoStreamNoop ==
    [][\A c \in Channels :
          (/\ streams[c] = NoStream
           /\ \/ \E u \in UpdateInputs : StartUpdate(c, u)
              \/ StartOffline(c))
          => /\ UNCHANGED <<streams, chat, db_streams, db_channels,
                            channels, mutex, chan_lock>>
             /\ \A t \in Tasks : tasks'[t].pc = tasks[t].pc
             /\ last'.status = 204
             /\ last'.res = "ok"]_vars

\* C6, the case happens: an offline notification found no runtime Stream
\* after the stream had been ended
C6_Witness ==
    /\ last.kind = "offline"
    /\ last.at = "remove"
    /\ last.status = 204
    /\ \E s \in StreamIds : db_streams[s].ended_at # NoTime

----------------------------------------------------------------------------
(* Claims C7 and C8: the TTL set of ttl_set.rs, under SpecTtl *)

\* C7: insert(key, ttl) takes a key once per ttl: an insert of a key made
\* before ttl has elapsed since the insert that recorded it is answered
\* false, that is, it is refused and the expiry recorded for the key stays
\* as it is, so that the first insert after that expiry is taken again.
C7_InsertOncePerTtl ==
    [][\A k \in Keys, ttl \in Ttls :
          (/\ TtlInsert(k, ttl)
           /\ recorded[k] # NoExp
           /\ now < recorded[k])
          => recorded'[k] = recorded[k]]_vars

\* C8: whatever the janitor and the membership operations do, a key whose
\* expiry is past is never reported fresh, and a key whose expiry is still
\* to come is never removed from the set nor reported absent.
C8_ExpiryRespected ==
    /\ ttl_last.op = "contains" /\ ttl_last.ret => ttl_last.rec > ttl_last.at
    /\ ttl_last.op = "contains" /\ ~ttl_last.ret
          => ~(ttl_last.rec # NoExp /\ ttl_last.rec > ttl_last.at)
    /\ \A k \in Keys : recorded[k] > now => map[k] = recorded[k]

----------------------------------------------------------------------------
(* Claim C9: the replay check of the webhook, under SpecWebhook *)

\* C9: a request that carries the signature headers and a message id seen
\* less than ten minutes ago is answered 204 and changes nothing in the
\* runtime Stream table, the store or the chat, and starts no handler,
\* whatever its type, body, timestamp or signature.
C9_DuplicateNoEffect ==
    [][\A k \in Keys :
          (/\ starts' # starts
           /\ recorded[k] # NoExp
           /\ now < recorded[k])
          => \A req \in Requests :
                (/\ req.hdr
                 /\ req.msgid = k
                 /\ Receive(req))
                => /\ last'.status = 204
                   /\ UNCHANGED <<streams, chat, db_streams, db_channels,
                                  channels, tasks, mutex, chan_lock>>]_vars

\* C9, the case happens: a request with a wrong signature or a timestamp
\* out of the window, and a message id seen before, was answered as the
\* duplicate while a runtime Stream exists
C9_Witness ==
    /\ last.at = "DuplicateMessageId"
    /\ last.status = 204
    /\ \E c \in Channels : streams[c] # NoStream

----------------------------------------------------------------------------
(* Claims C11 to C14: verification and dispatch, under SpecVerify *)

\* the request carries the three headers, a message id that is not in the
\* set of recent ids, and a timestamp inside the window
FreshInWindow(req) ==
    /\ req.hdr
    /\ Inserted(req.msgid)
    /\ Parsable(req.tstr)
    /\ Age(req) < MAX_TIMESTAMP_AGE_SECONDS
    /\ Age(req) >= -MAX_FUTURE_TIMESTAMP_SECONDS

\* the signature header is sha256= followed by the hex of the HMAC-SHA256
\* under the secret of message id, timestamp string and raw body
RightSignature(req) ==
    /\ req.prefix
    /\ req.hex
    /\ req.mac.key = Secret
    /\ req.mac.data = <<req.msgid, req.tstr, req.body>>

\* C11: a request with a fresh message id and a timestamp inside the
\* window is handed to the dispatch on the message type if and only if its
\* signature is the HMAC-SHA256 under the secret of message id, timestamp
\* string and body; otherwise it is answered 403 with an empty body and
\* nothing changes in the runtime Stream table, the store or the chat.
C11_SignatureDecides ==
    [][starts' # starts
          => \A req \in Requests :
                (FreshInWindow(req) /\ Receive(req))
                => IF RightSignature(req)
                   THEN /\ verdict'.err = "Ok"
                        /\ Dispatch(req, ParseTimestamp(req.tstr))
                   ELSE /\ last'.status = 403
                        /\ last'.body = ""
                        /\ UNCHANGED <<streams, chat, db_streams,
                                       db_channels, channels, tasks, mutex,
                                       chan_lock>>]_vars

\* C11, the case happens: a request with a fresh id, a timestamp in the
\* window and a signature that does not match was answered 403 while a
\* runtime Stream exists
C11_Witness ==
    /\ verdict.why = "Signature mismatch"
    /\ last.status = 403
    /\ last.at = "VerificationFailed"
    /\ \E c \in Channels : streams[c] # NoStream

\* the request of this step got as far as the checks of its timestamp: it
\* has its headers, a fresh message id and a timestamp that parses
AgeChecked(v) == v.err \in {"Ok", "VerificationFailed"}

\* C12 as stated: a request whose timestamp is exactly 600 seconds old is
\* refused with 403, and one whose timestamp is 599 seconds old passes the
\* age check.
C12_ExactlyMaxAgeRejected ==
    [][(starts' # starts /\ AgeChecked(verdict'))
          => /\ verdict'.age = 600
                => /\ verdict'.why = "Timestamp is too old"
                   /\ last'.status = 403
             /\ verdict'.age = 599
                => verdict'.why # "Timestamp is too old"]_vars

\* C12, as the code has it: a request is refused as too old, with 403,
\* exactly when its timestamp is more than 600 seconds old: 601 seconds is
\* refused, exactly 600 seconds and 599 seconds pass the age check.
C12_OlderThanMaxAgeRejected ==
    [][(starts' # starts /\ AgeChecked(verdict'))
          => /\ verdict'.age >= 601
                => /\ verdict'.why = "Timestamp is too old"
                   /\ last'.status = 403
             /\ verdict'.age <= 600
                => verdict'.why # "Timestamp is too old"]_vars

\* C12, the case happens: a challenge whose timestamp is exactly 600
\* seconds old was verified and answered 200
C12_Witness ==
    /\ verdict.age = 600
    /\ verdict.err = "Ok"
    /\ last.at = "challenge"
    /\ last.status = 200

\* C13: a request whose timestamp is exactly 180 seconds ahead of the clock
\* passes the skew check, and one whose timestamp is 181 seconds ahead is
\* refused with 403.
C13_FutureSkewEdge ==
    [][(starts' # starts /\ AgeChecked(verdict'))
          => /\ verdict'.age = -180
                => /\ verdict'.why # "Timestamp is in the future"
                   /\ verdict'.why # "Timestamp is too old"
             /\ verdict'.age = -181
                => /\ verdict'.why = "Timestamp is in the future"
                   /\ last'.status = 403]_vars

\* C13, the case happens: a signed request with a fresh message id and a
\* timestamp 181 seconds ahead was refused with 403
C13_Witness ==
    /\ verdict.age = -181
    /\ verdict.why = "Timestamp is in the future"
    /\ last.status = 403
    /\ \E k \in Keys : recorded[k] # NoExp

\* the handlers that handle_message awaits before it answers
Awaited == {"update", "offline"}

\* C14: the message type decides the response of a verified request: a
\* verification request with a challenge is answered 200 with the
\* challenge as the body; a notification that is handled without error is
\* answered 204, at once or when its handler returns; any other type,
\* revocation included, is answered 400 and no handler is invoked.
C14_TypeDecidesResponse ==
    [][/\ starts' # starts
          => \A req \in Requests :
                (Receive(req) /\ Verify(req) = "Ok")
                => CASE req.mtype = WEBHOOK_VERIFICATION_TYPE ->
                          /\ req.body.sub = "challenge"
                                => /\ last'.status = 200
                                   /\ last'.body = req.body.challenge
                          /\ UNCHANGED <<tasks, streams>>
                     [] req.mtype = NOTIFICATION_TYPE ->
                          \/ last'.status = 204 /\ last'.res = "ok"
                          \/ last'.status = 400 /\ req.body.sub = "malformed"
                          \/ /\ last' = NoOutcome
                             /\ \E t \in Tasks :
                                   /\ tasks[t] = IdleTask
                                   /\ tasks'[t].kind \in Awaited
                     [] OTHER ->
                          /\ last'.status = 400
                          /\ UNCHANGED <<tasks, streams, mutex, chat,
                                         db_streams, db_channels, channels>>
       /\ \A t \in Tasks :
             (tasks[t].kind \in Awaited /\ tasks'[t] = IdleTask)
                => last'.status = IF last'.res = "ok" THEN 204 ELSE 500]_vars

\* C14, the case happens: a verified revocation was answered 400 while a
\* runtime Stream exists
C14_Witness ==
    /\ verdict.err = "Ok"
    /\ last.at = "UnknownMessageType"
    /\ last.status = 400
    /\ \E c \in Channels : streams[c] # NoStream

----------------------------------------------------------------------------
(* Claims C15 and C16: the rows of the streams table, under Spec *)

\* the rows the table holds for a stream_id, oldest first
RowsOf(row) ==
    IF row = NoRow THEN <<>> ELSE Append(row.prior, Plain(row))

\* C15 as stated: for every stream_id, once its persistent ended_at is
\* non-null no store operation or handler (start_stream, update_stream,
\* end_stream, a repeated offline, the bootstrap) makes it null again: a
\* stream_id that has ended has no unfinished row afterwards.
C15_EndedStaysEnded ==
    [][\A s \in StreamIds :
          (db_streams[s] # NoRow /\ db_streams[s].ended_at # NoTime)
             => \/ db_streams'[s] = NoRow
                \/ db_streams'[s].ended_at # NoTime]_vars

\* C15, amended: for every row of the streams table, once the ended_at of
\* the row is non-null no store operation or handler makes the ended_at of
\* that row null again; a stream_id whose rows are ended can be given a
\* new unfinished row by start_stream, beside the ended ones.
C15_RowEndedStaysEnded ==
    [][\A s \in StreamIds :
          \A i \in 1..Len(RowsOf(db_streams[s])) :
             (/\ RowsOf(db_streams[s])[i].ended_at # NoTime
              /\ i <= Len(RowsOf(db_streams'[s])))
             => RowsOf(db_streams'[s])[i].ended_at # NoTime]_vars

\* C15, the case happens: an online handler that ran on after the stream
\* had been ended called start_stream for its stream_id: the stream_id has
\* its ended row and, beside it, a new unfinished one
C15_Witness ==
    /\ last.kind = "online"
    /\ last.at = "start_stream"
    /\ last.res = "ok"
    /\ \E s \in StreamIds :
          /\ db_streams[s] # NoRow
          /\ db_streams[s].ended_at = NoTime
          /\ db_streams[s].prior # <<>>
          /\ \A i \in 1..Len(db_streams[s].prior) :
                db_streams[s].prior[i].ended_at # NoTime

\* the live edits of a card: one per update notification handled for it
LiveEdits(m) ==
    Cardinality({i \in 1..Len(chat[m].log) : chat[m].log[i] = "live"})

\* the stream s went through online, updates and offline in that order,
\* without a failed call: its one card was sent, edited live by each
\* update, and ended, no notification having found the runtime Stream
\* missing
FullSequence(s) ==
    LET m == db_streams[s].message_id IN
    /\ faults = 0
    /\ db_streams[s] # NoRow
    /\ db_streams[s].ended_at # NoTime
    /\ \A n \in MsgIds : chat[n].state # "none" /\ chat[n].sid = s => n = m
    /\ chat[m].missed = {}
    /\ chat[m].log[1] = "send"
    /\ chat[m].log[Len(chat[m].log)] = "ended"
    /\ \A i \in 2..(Len(chat[m].log) - 1) : chat[m].log[i] = "live"

\* C16: after online, k updates and offline for one channel, delivered in
\* that order with increasing timestamps, the events of the stream's row
\* are the initial event and one event per update, k + 1 in all; the
\* terminal event of the tally is not among them.
C16_RowHasEventPerUpdate ==
    \A s \in StreamIds :
       FullSequence(s)
          => Len(db_streams[s].events) = LiveEdits(db_streams[s].message_id) + 1

----------------------------------------------------------------------------
(* Claim C17: tally_categories, under SpecTally *)

\* the sum of the values of map m over keys
RECURSIVE SumOver(_, _)
SumOver(m, keys) ==
    IF keys = {} THEN 0
    ELSE LET x == CHOOSE y \in keys : TRUE
         IN m[x] + SumOver(m, keys \ {x})

\* the titles and categories of the windows, each credited with the sum
\* of the seconds of its windows
CreditedPerWindow ==
    LET events == tally.events
        windows == 1..(Len(events) - 1)
    IN /\ Len(events) >= 2
       /\ DOMAIN tally.titles = {events[i].title : i \in windows}
       /\ DOMAIN tally.categories = {events[i].category : i \in windows}
       /\ \A x \in DOMAIN tally.titles :
             tally.titles[x] =
                SumElapsed(events, {i \in windows : events[i].title = x})
       /\ \A x \in DOMAIN tally.categories :
             tally.categories[x] =
                SumElapsed(events, {i \in windows : events[i].category = x})

\* the seconds from the first event to the last
Span == NumSeconds(tally.events[Len(tally.events)].timestamp
                     - tally.events[1].timestamp)

\* every timestamp of the list is a whole second
WholeSeconds ==
    \A i \in 1..Len(tally.events) :
       tally.events[i].timestamp % TicksPerSecond = 0

\* C17 as stated: for a list of n >= 2 events in timestamp order,
\* tally_categories credits each title and each category with the sum of
\* events[i+1].timestamp - events[i].timestamp over exactly the windows i
\* whose first event carries it; the last event credits nothing, so what
\* only the last event carries is not in the map; and the credits of
\* either map add up to last.timestamp - first.timestamp.
C17_TallyPerWindow ==
    tally # NoTally
       => /\ CreditedPerWindow
          /\ SumOver(tally.titles, DOMAIN tally.titles) = Span
          /\ SumOver(tally.categories, DOMAIN tally.categories) = Span

\* C17, as the code has it: the credit of a window is the whole seconds of
\* events[i+1].timestamp - events[i].timestamp; each title and category is
\* credited with the sum over exactly the windows whose first event
\* carries it, the last event credits nothing, and the credits of either
\* map add up to at most the whole seconds of last.timestamp -
\* first.timestamp: to exactly that when every timestamp is a whole second
\* or the list has two events.
C17_TallyWholeSecondsPerWindow ==
    tally # NoTally
       => /\ CreditedPerWindow
          /\ SumOver(tally.titles, DOMAIN tally.titles) <= Span
          /\ SumOver(tally.categories, DOMAIN tally.categories) <= Span
          /\ (WholeSeconds \/ Len(tally.events) = 2)
                => /\ SumOver(tally.titles, DOMAIN tally.titles) = Span
                   /\ SumOver(tally.categories, DOMAIN tally.categories)
                         = Span

\* C17, the case happens: one recorded event and the terminal event, of
\* another title and category, give maps of one entry each, the recorded
\* event's title and category with the seconds from initial to terminal
C17_Witness ==
    /\ Len(tally.events) = 2
    /\ tally.events[2].title # tally.events[1].title
    /\ tally.events[2].category # tally.events[1].category
    /\ DOMAIN tally.titles = {tally.events[1].title}
    /\ DOMAIN tally.categories = {tally.events[1].category}
    /\ tally.titles[tally.events[1].title] = Span
    /\ Span > 0
    /\ tally.title = tally.events[1].title

----------------------------------------------------------------------------
(* Claim C18: the offline handler, under SpecOffline *)

\* the events the offline handler tallies: those of the runtime Stream and
\* the terminal event at the offline timestamp, in timestamp order
Tallied(stream, timestamp) ==
    SortEvents(Append(stream.events,
                      UpdateEvent(stream.title, stream.category, timestamp)))

\* no title of the tally has more seconds than `title`
Winning(events, title) ==
    LET m == TitleTally(events)
    IN /\ title \in DOMAIN m
       /\ \A y \in DOMAIN m : m[y] <= m[title]

\* label lists three categories of the tally, or all if there are fewer,
\* none twice, in descending order of seconds, and no category left out
\* has more seconds than one that is listed
TopCategories(events, label) ==
    LET m == CategoryTally(events)
        listed == {label[i] : i \in 1..Len(label)}
    IN /\ Len(label) = Min(3, Cardinality(DOMAIN m))
       /\ listed \subseteq DOMAIN m
       /\ Cardinality(listed) = Len(label)
       /\ \A i \in 1..(Len(label) - 1) : m[label[i]] >= m[label[i + 1]]
       /\ \A x \in DOMAIN m \ listed : \A y \in listed : m[x] <= m[y]

\* C18: an offline notification for a channel whose runtime Stream holds
\* an event removes the runtime entry; the handler then edits the card of
\* the stream to the ended state, once, with a title of greatest tallied
\* duration as its description and the (at most) three categories of
\* greatest tallied duration, in descending order, as its label, and then
\* calls end_stream with that title and the offline timestamp.
C18_OfflineEndsCard ==
    [][/\ \A c \in Channels :
             (/\ streams[c] # NoStream
              /\ streams[c].events # <<>>
              /\ StartOffline(c))
             => /\ streams'[c] = NoStream
                /\ \E t \in Tasks :
                      /\ tasks[t] = IdleTask
                      /\ tasks'[t].kind = "offline"
                      /\ tasks'[t].pc = "off_edit"
                      /\ tasks'[t].msg = streams[c].message_id
                      /\ tasks'[t].sid = streams[c].id
                      /\ tasks'[t].ts = now
                      /\ Winning(Tallied(streams[c], now), tasks'[t].title)
                      /\ TopCategories(Tallied(streams[c], now),
                                       tasks'[t].label)
       /\ \A t \in Tasks :
             (tasks[t].pc = "off_edit" /\ tasks'[t].pc = "end_stream")
             => LET m == tasks[t].msg IN
                /\ \A i \in 1..Len(chat[m].log) : chat[m].log[i] # "ended"
                /\ chat'[m].state = "ended"
                /\ chat'[m].title = tasks[t].title
                /\ chat'[m].label = tasks[t].label
                /\ tasks'[t].title = tasks[t].title
                /\ tasks'[t].ts = tasks[t].ts
       /\ \A t \in Tasks :
             (/\ tasks[t].pc = "end_stream"
              /\ tasks'[t] = IdleTask
              /\ faults' = faults)
             => LET sid == tasks[t].sid IN
                /\ chat[tasks[t].msg].title = tasks[t].title
                /\ chat[tasks[t].msg].state = "ended"
                /\ (db_streams[sid] # NoRow /\ db_streams[sid].ended_at = NoTime)
                      => /\ db_streams'[sid].ended_at = tasks[t].ts
                         /\ db_streams'[sid].title = tasks[t].title]_vars

\* C18, the case happens: a stream whose events carry four categories was
\* ended: its card is ended with three categories as its label, and its
\* row is ended with the title of the card
C18_Witness ==
    \E s \in StreamIds :
       LET row == db_streams[s]
           m == row.message_id
       IN /\ row # NoRow
          /\ row.ended_at # NoTime
          /\ Cardinality({row.events[i].category :
                             i \in 1..Len(row.events)}) = 4
          /\ chat[m].state = "ended"
          /\ Len(chat[m].label) = 3
          /\ chat[m].title = row.title
          /\ last.kind = "offline"
          /\ last.at = "end_stream"

----------------------------------------------------------------------------
(* Claim C19: the bootstrap with a stored row, under SpecOffline *)

\* C19: the online handler that the bootstrap calls for a live stream
\* whose unfinished row is stored sends no chat message and writes no row,
\* and the runtime Stream it inserts has the message id and the events of
\* that row.
C19_PreloadAdopted ==
    [][\A t \in Tasks :
          (/\ tasks[t].kind = "boot"
           /\ tasks[t].pc # "idle"
           /\ db_streams[tasks[t].sid] # NoRow
           /\ db_streams[tasks[t].sid].ended_at = NoTime
           /\ tasks'[t] # tasks[t])
          => LET c == tasks[t].chan
                 row == db_streams[tasks[t].sid]
             IN /\ chat' = chat
                /\ db_streams' = db_streams
                /\ tasks'[t].pc \notin {"send", "start_stream"}
                /\ streams'[c] # streams[c]
                      => /\ streams'[c].id = tasks[t].sid
                         /\ streams'[c].message_id = row.message_id
                         /\ streams'[c].events = row.events]_vars

\* C19, the case happens: the bootstrap has inserted the runtime Stream of
\* a stored row of several events, with the row's message id and events,
\* and the row's card is the only message of the chat
C19_Witness ==
    \E c \in Channels :
       /\ last.kind = "boot"
       /\ last.res = "ok"
       /\ streams[c] # NoStream
       /\ LET row == db_streams[streams[c].id]
          IN /\ row # NoRow
             /\ Len(row.events) >= 2
             /\ streams[c].events = row.events
             /\ streams[c].message_id = row.message_id
             /\ \A m \in MsgIds :
                   chat[m].state # "none" => m = row.message_id

----------------------------------------------------------------------------
(* Claim C20: UntrackChannel for a live channel, under SpecService *)

\* C20: when UntrackChannel succeeds for a channel that has a runtime
\* Stream, the store lists neither the channel nor the row of that stream,
\* the chat message of the stream is deleted and the runtime Stream table
\* has no entry for the channel, so that a later update or offline
\* notification finds nothing.
C20_UntrackEndsLive ==
    [][\A c \in Channels, t \in Tasks :
          (/\ Present(c)
           /\ tasks[t].kind = "UntrackChannel"
           /\ tasks[t].pc = "unsubscribe"
           /\ tasks[t].chan = c
           /\ tasks'[t].pc = "idle"
           /\ last'.kind = "UntrackChannel"
           /\ last'.res = "ok")
          => /\ db_channels'[c] = NoChan
             /\ db_streams'[streams[c].id] = NoRow
             /\ chat'[streams[c].message_id].state = "deleted"
             /\ streams'[c] = NoStream]_vars

----------------------------------------------------------------------------
(* Claim C21: the names the control plane refuses, under SpecService *)

\* the name is a key of the table of ChannelService
InTable(name) == service_channels[name] # NoId

\* the step made no upstream call and left the store, the subscriptions
\* and the tables as they were
Untouched ==
    /\ last'.calls = <<>>
    /\ UNCHANGED <<db_channels, db_streams, subs, service_channels, channels,
                   streams, chat, tasks>>

\* C21: TrackChannel for a name that is in the table of ChannelService
\* returns AlreadyExists, UntrackChannel for a name that is not in it
\* returns NotFound, and either makes no upstream call and changes neither
\* the store, nor the subscriptions, nor the table.
C21_KnownNamesRefused ==
    [][\A name \in Names :
          /\ (InTable(name) /\ TrackChannel(name))
                => (last'.res = "already_exists" /\ Untouched)
          /\ (~InTable(name) /\ UntrackChannel(name))
                => (last'.res = "not_found" /\ Untouched)]_vars

\* C21, the case happens: a tracked and subscribed name was tracked again
\* and the answer was AlreadyExists
C21_Witness ==
    /\ last.kind = "TrackChannel"
    /\ last.res = "already_exists"
    /\ \E c \in Channels :
          /\ db_channels[c] # NoChan
          /\ InTable(db_channels[c])
          /\ SubscriptionsOf(subs, c) # {}

----------------------------------------------------------------------------
(* Claims C22 to C25: TwitchAPI::sync, under SpecSync *)

\* sync has returned Ok and none of the calls it made failed
SyncedClean ==
    /\ sync.res = "ok"
    /\ \A f \in sync.finished : f.ok

\* the pairs sync was asked to have, from its argument alone
Desired == {<<sync.channels[i], k>> : i \in 1..Len(sync.channels),
                                      k \in Kinds}

\* the pairs that had an enabled subscription when sync listed them
EnabledBefore ==
    {<<sync.listed[i].user_id, sync.listed[i].kind>> :
       i \in {j \in 1..Len(sync.listed) :
                sync.listed[j].status = "enabled"}}

\* the pairs sync has issued a create for
Created ==
    {c.pair : c \in {f.op : f \in {g \in sync.finished :
                                      g.op.do = "create"}}
                     \cup {o \in sync.pending : o.do = "create"}}

\* C22 as stated: when sync has returned and no upstream call failed,
\* every desired pair (channel, event) has an enabled subscription
\* upstream, and the pairs a create was issued for are exactly the desired
\* pairs that had no enabled subscription when sync listed them.
C22_DesiredPairsSubscribed ==
    SyncedClean =>
       /\ \A pair \in Desired :
             \E x \in subs :
                /\ <<x.user_id, x.kind>> = pair
                /\ x.status = "enabled"
       /\ Created = Desired \ EnabledBefore

\* C22, amended: when sync has returned and no upstream call failed, every
\* desired pair (channel, event) has a subscription upstream: the enabled
\* one sync listed for it, or else the one sync created for it, whose
\* status is whatever the upstream gave it; and the pairs a create was
\* issued for are exactly the desired pairs that had no enabled
\* subscription when sync listed them.
C22_DesiredPairsListedOrCreated ==
    SyncedClean =>
       /\ \A pair \in Desired :
             \E x \in subs :
                /\ <<x.user_id, x.kind>> = pair
                /\ IF pair \in EnabledBefore THEN x.status = "enabled"
                   ELSE x.id = NewId(pair[1], pair[2])
       /\ Created = Desired \ EnabledBefore

\* C22, the case happens: a failure-free sync has found a desired pair
\* enabled and has created another, and the created subscription is not
\* enabled
C22_Witness ==
    /\ SyncedClean
    /\ Created # {}
    /\ Desired \cap EnabledBefore # {}
    /\ \E x \in subs :
          /\ <<x.user_id, x.kind>> \in Created
          /\ x.status # "enabled"

\* the ids of the listed subscriptions that are not enabled
NotEnabled ==
    {sync.listed[i].id :
       i \in {j \in 1..Len(sync.listed) :
                sync.listed[j].status # "enabled"}}

\* the calls sync has issued so far, and those that have returned
Done == {f.op : f \in sync.finished}
Issued == sync.pending \cup Done

\* C23: sync issues a delete for every listed subscription whose status
\* is not "enabled", and all of these deletes have returned before a
\* create of a missing pair or a delete of an extra enabled subscription
\* is issued.
C23_StaleDeletedFirst ==
    (sync.pc # "idle" \/ sync.res = "ok") =>
       /\ {o.id : o \in {x \in Issued : x.why = "stale"}} = NotEnabled
       /\ (\E o \in Issued : o.why \in {"add", "remove"})
             => \A id \in NotEnabled : Delete("stale", id) \in Done

\* C23, the case happens: the stale deletes have returned, one of them
\* with an error, and a create is under way
C23_Witness ==
    /\ NotEnabled # {}
    /\ \E o \in sync.pending : o.why = "add"
    /\ \E f \in sync.finished : f.op.why = "stale" /\ ~f.ok

\* C24: when sync has returned and no upstream call failed, no enabled
\* subscription is left upstream for a pair that is not desired, whatever
\* the number of subscription ids the upstream listed for that pair.
C24_NoExtraLeft ==
    SyncedClean =>
       \A x \in subs :
          x.status = "enabled" => <<x.user_id, x.kind>> \in Desired

\* the ids the upstream listed as enabled for a pair
ListedFor(pair) ==
    {sync.listed[i].id :
       i \in {j \in 1..Len(sync.listed) :
                /\ sync.listed[j].status = "enabled"
                /\ <<sync.listed[j].user_id, sync.listed[j].kind>> = pair}}

\* C25: a create or delete that fails does not end sync: when sync has
\* returned Ok, the delete of every subscription that was not enabled, the
\* create of every missing desired pair and a delete for every enabled pair
\* that is not desired have all been issued and have returned, failed or
\* not; sync fails only when the list of subscriptions could not be read,
\* and then it has issued nothing.
C25_FailuresDoNotAbort ==
    /\ sync.res = "err" => (sync.listed = <<>> /\ Issued = {})
    /\ sync.res = "ok" =>
          /\ sync.pending = {}
          /\ \A id \in NotEnabled : Delete("stale", id) \in Done
          /\ \A pair \in Desired \ EnabledBefore : Create(pair) \in Done
          /\ \A pair \in EnabledBefore \ Desired :
                \E id \in ListedFor(pair) : Delete("remove", id) \in Done

\* C25, the case happens: sync has returned Ok although a stale delete and
\* a create failed, and a call issued after them has been done
C25_Witness ==
    /\ sync.res = "ok"
    /\ \E f \in sync.finished : f.op.why = "stale" /\ ~f.ok
    /\ \E f \in sync.finished : f.op.why = "add" /\ ~f.ok
    /\ \E f \in sync.finished : f.op.why = "remove" /\ f.ok

----------------------------------------------------------------------------
(* Claim C26: the attempts and sleeps of get_stream, under SpecFetch *)

\* the first k attempts of the call found no stream
Unsuccessful(k) == \A i \in 1..k : fetch.seen[i] # "stream"

\* the sleeps that follow the first k unsuccessful attempts
SleepsAfter(k) == SubSeq(<<15, 30, 60, 120, 300>>, 1, k)

\* C26: get_stream with retry makes at most six attempts and sleeps 15,
\* 30, 60, 120 and 300 seconds after the first to the fifth unsuccessful
\* one; it returns at the first attempt that finds a stream, with no
\* attempt or sleep after it, and fails after the sixth unsuccessful
\* attempt; without retry it makes one attempt and never sleeps.
C26_RetrySchedule ==
    LET n == Len(fetch.seen)
        most == IF fetch.retry THEN 6 ELSE 1
    IN /\ n <= most
       /\ ~fetch.retry => fetch.slept = <<>>
       /\ fetch.pc = "send" =>
             (Unsuccessful(n) /\ fetch.slept = SleepsAfter(n))
       /\ fetch.pc = "sleep" =>
             (Unsuccessful(n) /\ fetch.slept = SleepsAfter(n - 1))
       /\ fetch.res = "ok" =>
             /\ fetch.pc = "idle"
             /\ fetch.seen[n] = "stream"
             /\ Unsuccessful(n - 1)
             /\ fetch.slept = SleepsAfter(n - 1)
       /\ fetch.res = "err" =>
             /\ fetch.pc = "idle"
             /\ n = most
             /\ Unsuccessful(n)
             /\ fetch.slept = SleepsAfter(n - 1)

\* C26, the case happens: a call with retry has failed after six attempts,
\* an empty answer and an error among them, and five sleeps
C26_Witness ==
    /\ fetch.retry
    /\ fetch.res = "err"
    /\ Len(fetch.seen) = 6
    /\ \E i, j \in 1..6 : fetch.seen[i] = "empty" /\ fetch.seen[j] = "error"
    /\ fetch.slept = <<15, 30, 60, 120, 300>>

----------------------------------------------------------------------------
(* Claim C27: the requests of get_streams, under SpecBatch *)

\* ids 100 (i - 1) + 1 to 100 i of the input, as far as there are any
Hundred(i) ==
    [k \in 1..(IF 100 * i < Len(batch.user_ids) THEN 100
               ELSE Len(batch.user_ids) - 100 * (i - 1)) |->
        batch.user_ids[100 * (i - 1) + k]]

\* the answers to the first r requests, one after the other
RECURSIVE Gathered(_)
Gathered(r) ==
    IF r = 0 THEN <<>>
    ELSE Gathered(r - 1) \o (IF batch.answers[r] = "all"
                             THEN batch.requests[r] ELSE <<>>)

\* C27: get_streams with n ids sends ceil(n / 100) requests, the i-th with
\* the i-th hundred of the ids in input order (the last with what is
\* left), and returns the answers one after the other in the order of the
\* requests; a request that fails makes the whole call fail.
C27_ChunksOfHundred ==
    LET n == Len(batch.user_ids)
        r == Len(batch.requests)
    IN /\ \A i \in 1..r :
             /\ batch.requests[i] = Hundred(i)
             /\ Len(batch.requests[i]) \in 1..100
       /\ batch.res = "ok" =>
             /\ r = (n + 99) \div 100
             /\ \A i \in 1..r : batch.answers[i] # "error"
             /\ batch.streams = Gathered(r)
       /\ (\E i \in 1..r : batch.answers[i] = "error") =>
             /\ batch.res = "err"
             /\ batch.pc = "idle"
             /\ batch.answers[r] = "error"
       /\ batch.res = "err" => batch.answers[r] = "error"

\* C27, the case happens: 250 ids were asked for in requests of 100, 100
\* and 50 ids, and the streams of the first and the last request were
\* returned
C27_Witness ==
    /\ Len(batch.user_ids) = 250
    /\ batch.res = "ok"
    /\ Len(batch.requests) = 3
    /\ Len(batch.requests[1]) = 100
    /\ Len(batch.requests[2]) = 100
    /\ Len(batch.requests[3]) = 50
    /\ batch.answers = <<"all", "none", "all">>
    /\ batch.streams = batch.requests[1] \o batch.requests[3]

----------------------------------------------------------------------------
(* Claim C28: the return of run after a shutdown signal, under            *)
(* SpecShutdown                                                            *)

\* C28: once run has returned after a shutdown signal, both servers have
\* stopped and every online task spawned before the signal has run to
\* completion: none is left suspended at an await of its handler. (A
\* server whose future the select! dropped counts as stopped here, so the
\* statement is about the tasks.)
C28_DrainedBeforeReturn ==
    (app.cancelled /\ app.run = "returned") => Spawned = {}

----------------------------------------------------------------------------
(* Claim C29: a failed lookup in the online handler, under Spec *)

\* handle_stream_online of task t awaits its upstream lookups
InLookup(tk) ==
    /\ tk.kind \in {"online", "boot"}
    /\ tk.pc \in {"get_stream", "get_channel"}

\* this step ends the online handler of task t at a failed lookup: the
\* call failed, or the upstream has no stream for the channel
LookupFails(t) ==
    /\ InLookup(tasks[t])
    /\ tasks'[t] = IdleTask
    /\ \/ faults' # faults
       \/ tasks[t].pc = "get_stream" /\ up_stream[tasks[t].chan].id = 0

\* this step starts the online handler of task t or takes it from one
\* lookup to the other
LookupGoesOn(t) ==
    /\ tasks'[t] # tasks[t]
    /\ InLookup(tasks'[t])

\* C29: an online handler whose channel lookup or stream lookup fails
\* exits without having changed anything: neither the step that ends it
\* nor a step it took before changes the runtime streams, the tracked
\* channels, the chat channel, the streams table or the channels table.
C29_FailedLookupMutatesNothing ==
    [][\A t \in Tasks :
          (LookupFails(t) \/ LookupGoesOn(t)) =>
              UNCHANGED <<streams, channels, chat, db_streams,
                          db_channels>>]_vars

\* C29, the case happens: an online handler has returned the error of its
\* channel lookup while the channel is tracked and its stream is live
\* upstream, and there is no runtime Stream, no stream row and no message
C29_Witness ==
    /\ last.kind = "online"
    /\ last.at = "get_channel"
    /\ last.res = "err"
    /\ channels[last.chan] # NoChan
    /\ up_stream[last.chan].id # 0
    /\ streams[last.chan] = NoStream
    /\ \A s \in StreamIds : db_streams[s] = NoRow
    /\ \A m \in DOMAIN chat : chat[m] = NoCard

\* C29, the other case: an online handler found no stream and returned
C29_WitnessNoStream ==
    /\ last.kind = "online"
    /\ last.at = "get_stream"
    /\ last.res = "ok"
    /\ streams[last.chan] = NoStream

----------------------------------------------------------------------------
(* Claim C30: the initial event in the runtime Stream and in the row,     *)
(* under Spec                                                              *)

\* no handler is in flight
Quiet == \A t \in Tasks : tasks[t].pc = "idle"

\* the channels with a runtime Stream whose row start_stream has written
Started ==
    {c \in Channels :
        /\ Present(c)
        /\ db_streams[streams[c].id] # NoRow
        /\ db_streams[streams[c].id].channel_id = c}

\* C30: whenever no handler is in flight, the initial UpdateEvent of a
\* live stream's row (written by start_stream) is the initial UpdateEvent
\* of its runtime Stream: the same title, category and timestamp.
C30_InitialEventPersistedAsHeld ==
    Quiet =>
        \A c \in Started :
            db_streams[streams[c].id].events[1] = streams[c].events[1]

----------------------------------------------------------------------------
(* Claim C31: the text of human_duration, under SpecDuration *)

\* C31: human_duration renders every negative duration, also one of less
\* than a minute, as "<in the future>", and every other duration as its
\* whole hours, "h", its remaining minutes in two digits, "m".
C31_NegativeIsFuture ==
    LET secs == duration.end - duration.start
        h == secs \div 3600
        m == (secs \div 60) % 60
    IN duration.text # "" =>
          IF secs < 0 THEN duration.text = "<in the future>"
          ELSE duration.text =
                  ToString(h) \o "h" \o
                  (IF m < 10 THEN "0" ELSE "") \o ToString(m) \o "m"

----------------------------------------------------------------------------
(* Claim C32: end_stream on a row that is ended, under Spec *)

\* this step is the return of db::end_stream in task t, called for a row
\* whose ended_at is not null
EndsEnded(t) ==
    /\ tasks[t].pc = "end_stream"
    /\ tasks'[t] = IdleTask
    /\ faults' = faults
    /\ db_streams[tasks[t].sid] # NoRow
    /\ db_streams[tasks[t].sid].ended_at # NoTime

\* C32: end_stream called for a row whose ended_at is already set leaves
\* the ended_at and the title of that row as they are, whatever final
\* title and ended_at it is called with.
C32_EndStreamIdempotent ==
    [][\A t \in Tasks :
          EndsEnded(t) =>
              /\ db_streams'[tasks[t].sid].ended_at =
                    db_streams[tasks[t].sid].ended_at
              /\ db_streams'[tasks[t].sid].title =
                    db_streams[tasks[t].sid].title]_vars

\* C32, the case happens: two offline handlers have ended one card each
\* of the same stream and both have called end_stream for it, no call
\* having failed; the second call found the row ended
C32_Witness ==
    /\ \A t \in Tasks : tasks[t].pc = "idle"
    /\ faults = 0
    /\ last.kind = "offline"
    /\ last.at = "end_stream"
    /\ \E m, n \in MsgIds :
          /\ m # n
          /\ chat[m].state = "ended"
          /\ chat[n].state = "ended"
          /\ chat[m].sid = chat[n].sid
          /\ db_streams[chat[m].sid] # NoRow
          /\ db_streams[chat[m].sid].ended_at # NoTime

----------------------------------------------------------------------------
(* Claim C33: the message id of a rejected request, under SpecVerify *)

\* this step answers a request that verify rejected for its signature or
\* its timestamp
Rejects ==
    /\ starts' = starts + 1
    /\ verdict'.err \in {"VerificationFailed", "InvalidHeaderValue"}

\* C33: a request rejected for a bad signature, a bad timestamp or an
\* unparsable timestamp does not record its message id in the set of
\* recent messages, so that a later valid delivery with that id is not
\* taken for a duplicate.
C33_RejectedNotRecorded ==
    [][Rejects => UNCHANGED <<map, recorded>>]_vars

----------------------------------------------------------------------------
(* Claim C34: an offline notification that overtakes the spawned online   *)
(* handler, under FairSpec                                                 *)

\* the offline notification of channel c was accepted after its online
\* notification, whose spawned handler is still at its lookups
Overtaken(c) ==
    \E t \in Tasks :
       /\ tasks[t].kind = "online"
       /\ tasks[t].chan = c
       /\ tasks[t].pc \in {"get_stream", "get_channel"}
       /\ "offline" \in tasks[t].missed

\* channel c is Live through a handler that its offline had overtaken
LiveOvertaken(c) ==
    /\ Present(c)
    /\ "offline" \in chat[streams[c].message_id].missed

\* C34: when the offline notification of a channel is accepted after its
\* online notification, also while the spawned online handler is still
\* looking the stream up, the channel does not stay Live: from some point
\* on it has no runtime Stream of that handler.
C34_OfflineEndsLive ==
    \A c \in Channels : [](Overtaken(c) => <>[]~LiveOvertaken(c))

----------------------------------------------------------------------------
(* Claim C35: online handlers and untrack, under Spec *)

\* C35: whenever no handler is in flight, a broadcaster that is not in
\* the table of channels has no runtime Stream: an online handler that
\* passed the check of the channel table before untrack removed the
\* channel leaves no runtime Stream behind.
C35_NoStreamOfUntracked ==
    Quiet => \A c \in Channels : channels[c] = NoChan => ~Present(c)

----------------------------------------------------------------------------
(* Claim C36: the runtime Streams and the open rows after an error,       *)
(* under Spec                                                              *)

\* some channel has a runtime Stream with stream id s
Held(s) == \E c \in Channels : Present(c) /\ streams[c].id = s

\* the store has a row for s whose ended_at is null
Open(s) == db_streams[s] # NoRow /\ db_streams[s].ended_at = NoTime

\* C36: whenever no handler is in flight, also after a handler has
\* returned an error, there is a runtime Stream with stream id s exactly
\* when the store holds a row for s with ended_at null.
C36_StreamIffOpenRow ==
    (/\ Quiet
     /\ last.res = "err"
     /\ last.at \in {"off_edit", "end_stream", "start_stream", "delete_stream"})
        => \A s \in StreamIds : Held(s) <=> Open(s)

----------------------------------------------------------------------------
(* Claim C37: a failed update_stream and the runtime Stream, under Spec   *)

\* every event of the sequence held is an event of the sequence stored
AllStored(held, stored) ==
    \A i \in 1..Len(held) : \E j \in 1..Len(stored) : held[i] = stored[j]

\* C37: once the update handler has returned the error of a failed
\* update_stream, the events of the runtime Stream are all in the events
\* of its row, so the failed notification has left no event behind.
C37_FailedUpdateLeavesStream ==
    \A c \in Channels :
        (/\ Quiet
         /\ last.kind = "update" /\ last.at = "update_stream"
         /\ last.res = "err" /\ last.chan = c
         /\ Present(c)
         /\ db_streams[streams[c].id] # NoRow)
            => AllStored(streams[c].events, db_streams[streams[c].id].events)

----------------------------------------------------------------------------
(* Claim C38: a failed Track or Untrack RPC, under SpecService            *)

\* no RPC of ChannelService is in flight
NoRpc ==
    \A t \in Tasks : tasks[t].kind \notin {"TrackChannel", "UntrackChannel"}

\* the names in the table of ChannelService and in the rows of the store
TableNames == {name \in Names : service_channels[name] # NoId}
StoreNames == {db_channels[c] : c \in Channels} \ {NoChan}

\* C38: after a TrackChannel whose subscribe failed or an UntrackChannel
\* whose unsubscribe failed, with no RPC in flight, the names in the table
\* of the service are the names in the channel rows of the store, as
\* they were before the call.
C38_FailedRpcLeavesAll ==
    (/\ NoRpc
     /\ last.kind \in {"TrackChannel", "UntrackChannel"}
     /\ last.res = "internal"
     /\ last.at \in {"subscribe", "unsubscribe"})
        => TableNames = StoreNames

----------------------------------------------------------------------------
(* Claim C39: what sync leaves alone, under SpecSync                      *)

\* the ids the upstream listed as enabled for a desired pair
KeptIds ==
    {sync.listed[i].id :
       i \in {j \in 1..Len(sync.listed) :
                /\ sync.listed[j].status = "enabled"
                /\ <<sync.listed[j].user_id, sync.listed[j].kind>>
                      \in Desired}}

\* the list sync read is the desired set: every subscription is enabled
\* and for a desired pair, and every desired pair has one
Matching ==
    /\ NotEnabled = {}
    /\ EnabledBefore = Desired

\* C39: sync issues no delete for an enabled subscription of a desired
\* pair and no create for a pair that was listed as enabled; when the list
\* it read matches the desired set it issues no create and no delete.
C39_SyncKeepsWhatMatches ==
    (sync.pc # "idle" \/ sync.res = "ok") =>
       /\ \A o \in Issued : o.do = "delete" => o.id \notin KeptIds
       /\ \A o \in Issued : o.do = "create" => o.pair \notin EnabledBefore
       /\ Matching => Issued = {}

\* C39, the case happens: sync has returned after creates and deletes and
\* an enabled subscription of a desired pair is still upstream
C39_Witness ==
    /\ sync.res = "ok"
    /\ \E o \in Done : o.do = "create"
    /\ \E o \in Done : o.do = "delete" /\ o.why = "remove"
    /\ \E x \in subs : x.id \in KeptIds

\* C39, the case happens: sync has returned from a list of three enabled
\* subscriptions that matches the three desired pairs
C39_WitnessMatching ==
    /\ sync.res = "ok"
    /\ Matching
    /\ Desired # {}
    /\ Len(sync.listed) = 3

----------------------------------------------------------------------------
(* Claim C40: the handlers on the worker threads, under SpecWorkers       *)

\* C40: every handler that has started completes, whatever the
\* interleaving of the online, update and offline handlers, when every
\* call of the store, the chat and the upstream returns.
C40_HandlersComplete ==
    \A t \in Tasks : (tasks[t].pc # "idle") ~> (tasks[t].pc = "idle")

====
